---- MODULE Spec2Model ----
(***************************************************************************)
(* Model of the slide-DSL pipeline of ppt-creator (src/lib/dsl-parser.ts): *)
(* tolerant JSON decoding, content-block normalisation and height-aware    *)
(* pagination.                                                             *)
(*                                                                         *)
(* JavaScript values are modelled as tagged records:                       *)
(*   undefined, null, booleans, numbers, strings (sequences of one-        *)
(*   character strings), arrays (sequences of values) and plain objects    *)
(*   (functions from property names, themselves character sequences, to    *)
(*   values).                                                              *)
(* Heights are kept in hundredths of an inch so that the arithmetic of     *)
(* getBlockHeight and splitByContentSize is exact integer arithmetic.      *)
(***************************************************************************)
EXTENDS Integers, Sequences, FiniteSets, TLC

VARIABLES
    pc,         \* position of the modelled call: "start" before it runs, "done" after
    slide,      \* argument of splitSingleSlide
    outSlides,  \* value returned by splitSingleSlide
    rawBlock,   \* argument of normalizeContentBlock
    normBlock,  \* normalizeContentBlock(rawBlock)
    renormBlock,\* normalizeContentBlock(normBlock), when normBlock is a block
    jsonData,   \* the generic tree parseDSLLenient obtained from JSON.parse
    rawText,    \* the input string of parseDSLLenient
    parseResult,\* the DSLParseResult returned by parseDSLLenient
    source,     \* how rawText was produced: the slides of the document that was
                \* written out, the offsets at which they end, and the length kept
    session,    \* the stored GenerationSession (the session file)
    slots,      \* per request of the generate route: the position of its handler
                \* and of the after() callback it scheduled, and their locals
    searchAvailable, \* isSearchAvailable(): whether a search provider is configured
    toolFn,     \* which tool-calling loop of AIClient runs
    iterations, \* its local iterations
    finished,   \* its local finished
    addedSlides,\* generateSlidesWithTools: its local slides, the slides accepted so far
    resources,  \* conductResearch: the resources collected so far
    summary,    \* conductResearch: the summary
    message,    \* its local message: the assistant message of the last response
    conversationMessages, \* the tool-role messages pushed so far
    requests,   \* number of chat.completions.create calls made
    returned    \* how the loop ended, once it has: the value returned, or the throw

dslVars == <<pc, slide, outSlides, rawBlock, normBlock, renormBlock, jsonData, rawText,
             parseResult, source>>
routeVars == <<session, slots, searchAvailable>>
toolVars == <<toolFn, iterations, finished, addedSlides, resources, summary, message,
              conversationMessages, requests, returned>>
vars == <<dslVars, routeVars, toolVars>>

-----------------------------------------------------------------------------
(* JavaScript values *)

Undef == [t |-> "undef"]
Null == [t |-> "null"]
Bool(b) == [t |-> "bool", b |-> b]
Num(n) == [t |-> "num", n |-> n]
Str(s) == [t |-> "str", s |-> s]
Arr(a) == [t |-> "arr", a |-> a]
Obj(f) == [t |-> "obj", o |-> f]
\* a number written with a fraction or an exponent, kept as written
Float(lit) == [t |-> "float", lit |-> lit]

IsString(x) == x.t = "str"
IsArray(x) == x.t = "arr"
\* typeof x === 'object' && x !== null
IsObjectLike(x) == x.t \in {"obj", "arr"}

\* property read o[k]: undefined when the property is absent
Get(x, k) == IF x.t = "obj" /\ k \in DOMAIN x.o THEN x.o[k] ELSE Undef

\* { ...o, [k]: v }
With(x, k, v) == Obj((k :> v) @@ x.o)

\* JavaScript truthiness of the values that occur as optional string fields
Truthy(x) ==
    CASE x.t = "undef" -> FALSE
      [] x.t = "null" -> FALSE
      [] x.t = "bool" -> x.b
      [] x.t = "num" -> x.n # 0
      [] x.t = "str" -> Len(x.s) > 0
      [] OTHER -> TRUE

Range(s) == {s[i] : i \in DOMAIN s}
Max(a, b) == IF a >= b THEN a ELSE b
Min(a, b) == IF a <= b THEN a ELSE b
\* Math.ceil(n / d) for naturals
CeilDiv(n, d) == (n + d - 1) \div d

\* Array.prototype.slice(start, end) with 0-based, end-exclusive indices
Slice(s, start, end) == SubSeq(s, start + 1, Min(end, Len(s)))

\* flattening of a sequence of sequences (result.push(...parts) in a loop)
RECURSIVE Flatten(_)
Flatten(ss) ==
    IF Len(ss) = 0 THEN <<>>
    ELSE IF Len(ss) = 1 THEN ss[1]
    ELSE LET half == Len(ss) \div 2
         IN  Flatten(SubSeq(ss, 1, half)) \o Flatten(SubSeq(ss, half + 1, Len(ss)))

Digit(d) == <<"0", "1", "2", "3", "4", "5", "6", "7", "8", "9">>[d + 1]
\* decimal rendering of a natural number, as `${n}` and String(n) produce it
RECURSIVE NatToStr(_)
NatToStr(n) == IF n < 10 THEN <<Digit(n)>> ELSE NatToStr(n \div 10) \o <<Digit(n % 10)>>

\* a string of n copies of the character c
Rep(c, n) == [i \in 1..n |-> c]

\* rawText that was not cut out of a written document
NoSource == [slides |-> <<>>, ends |-> <<>>, cut |-> 0]

\* the generate route and the tool-calling loops when they are not the
\* subject of the specification
RouteIdle == session = <<>> /\ slots = <<>> /\ searchAvailable = FALSE

ToolsIdle ==
    /\ toolFn = "none" /\ iterations = 0 /\ finished = FALSE
    /\ addedSlides = <<>> /\ resources = <<>> /\ summary = <<>> /\ message = <<>>
    /\ conversationMessages = <<>> /\ requests = 0 /\ returned = <<>>

-----------------------------------------------------------------------------
(* Property names and string literals of the source *)

k_type == <<"t", "y", "p", "e">>
k_text == <<"t", "e", "x", "t">>
k_emphasis == <<"e", "m", "p", "h", "a", "s", "i", "s">>
k_items == <<"i", "t", "e", "m", "s">>
k_lines == <<"l", "i", "n", "e", "s">>
k_code == <<"c", "o", "d", "e">>
k_content == <<"c", "o", "n", "t", "e", "n", "t">>
k_language == <<"l", "a", "n", "g", "u", "a", "g", "e">>
k_lang == <<"l", "a", "n", "g">>
k_caption == <<"c", "a", "p", "t", "i", "o", "n">>
k_headers == <<"h", "e", "a", "d", "e", "r", "s">>
k_rows == <<"r", "o", "w", "s">>
k_data == <<"d", "a", "t", "a">>
k_author == <<"a", "u", "t", "h", "o", "r">>
k_layout == <<"l", "a", "y", "o", "u", "t">>
k_title == <<"t", "i", "t", "l", "e">>
k_subtitle == <<"s", "u", "b", "t", "i", "t", "l", "e">>
k_leftContent == <<"l", "e", "f", "t", "C", "o", "n", "t", "e", "n", "t">>
k_rightContent == <<"r", "i", "g", "h", "t", "C", "o", "n", "t", "e", "n", "t">>
k_notes == <<"n", "o", "t", "e", "s">>
k_slides == <<"s", "l", "i", "d", "e", "s">>

s_paragraph == <<"p", "a", "r", "a", "g", "r", "a", "p", "h">>
s_bullets == <<"b", "u", "l", "l", "e", "t", "s">>
s_numbered == <<"n", "u", "m", "b", "e", "r", "e", "d">>
s_code == <<"c", "o", "d", "e">>
s_table == <<"t", "a", "b", "l", "e">>
s_quote == <<"q", "u", "o", "t", "e">>
s_normal == <<"n", "o", "r", "m", "a", "l">>
s_highlight == <<"h", "i", "g", "h", "l", "i", "g", "h", "t">>
s_muted == <<"m", "u", "t", "e", "d">>
s_title_only == <<"t", "i", "t", "l", "e", "-", "o", "n", "l", "y">>
s_title_content == <<"t", "i", "t", "l", "e", "-", "c", "o", "n", "t", "e", "n", "t">>
s_two_column == <<"t", "w", "o", "-", "c", "o", "l", "u", "m", "n">>
s_section == <<"s", "e", "c", "t", "i", "o", "n">>
s_comparison == <<"c", "o", "m", "p", "a", "r", "i", "s", "o", "n">>
s_text == <<"t", "e", "x", "t">>
s_null == <<"n", "u", "l", "l">>
s_true == <<"t", "r", "u", "e">>
s_false == <<"f", "a", "l", "s", "e">>
s_object_Object == <<"[", "o", "b", "j", "e", "c", "t", " ", "O", "b", "j", "e", "c", "t", "]">>
s_undefined == <<"u", "n", "d", "e", "f", "i", "n", "e", "d">>

-----------------------------------------------------------------------------
(* DSL_LIMITS (src/types/slide-dsl.ts) *)

MAX_CONTENT_BLOCKS_PER_SLIDE == 4
MAX_CONTENT_BLOCKS_PER_COLUMN == 3
MAX_TITLE_LENGTH == 100
MAX_SUBTITLE_LENGTH == 150
MAX_PARAGRAPH_LENGTH == 300
MAX_LIST_ITEMS == 6
MAX_LIST_ITEM_LENGTH == 100
MAX_CODE_LINES == 15
MAX_TABLE_COLUMNS == 5
MAX_TABLE_ROWS == 6
MAX_QUOTE_LENGTH == 200

-----------------------------------------------------------------------------
(* Size estimator: getBlockHeight, in hundredths of an inch *)

MAX_CONTENT_HEIGHT == 420
MIN_CONTENT_HEIGHT == 80
BLOCK_SPACING == 15

PARAGRAPH_CHARS_PER_LINE == 50
PARAGRAPH_LINE_HEIGHT == 25
PARAGRAPH_MIN_HEIGHT == 40
LIST_ITEM_HEIGHT == 35
TABLE_ROW_HEIGHT == 35
CAPTION_HEIGHT == 30
CODE_LINE_HEIGHT == 16
CODE_PADDING == 24
CODE_MAX_HEIGHT == 350
QUOTE_CHARS_PER_LINE == 45
QUOTE_LINE_HEIGHT == 25
QUOTE_MIN_HEIGHT == 50
QUOTE_AUTHOR_HEIGHT == 35
QUOTE_NO_AUTHOR_HEIGHT == 10
DEFAULT_BLOCK_HEIGHT == 50

\* switch (block.type) { case lit: ... } compares with ===
TypeIs(block, lit) == Get(block, k_type) = Str(lit)

getBlockHeight(block) ==
    CASE TypeIs(block, s_paragraph) ->
           Max(PARAGRAPH_MIN_HEIGHT,
               CeilDiv(Len(Get(block, k_text).s), PARAGRAPH_CHARS_PER_LINE) * PARAGRAPH_LINE_HEIGHT)
      [] TypeIs(block, s_bullets) \/ TypeIs(block, s_numbered) ->
           Len(Get(block, k_items).a) * LIST_ITEM_HEIGHT
      [] TypeIs(block, s_table) ->
           (Len(Get(block, k_rows).a) + 1) * TABLE_ROW_HEIGHT
             + (IF Truthy(Get(block, k_caption)) THEN CAPTION_HEIGHT ELSE 0)
      [] TypeIs(block, s_code) ->
           Min(Len(Get(block, k_lines).a) * CODE_LINE_HEIGHT + CODE_PADDING, CODE_MAX_HEIGHT)
             + (IF Truthy(Get(block, k_caption)) THEN CAPTION_HEIGHT ELSE 0)
      [] TypeIs(block, s_quote) ->
           Max(QUOTE_MIN_HEIGHT,
               CeilDiv(Len(Get(block, k_text).s), QUOTE_CHARS_PER_LINE) * QUOTE_LINE_HEIGHT)
             + (IF Truthy(Get(block, k_author)) THEN QUOTE_AUTHOR_HEIGHT ELSE QUOTE_NO_AUTHOR_HEIGHT)
      [] OTHER -> DEFAULT_BLOCK_HEIGHT

\* lastPage.reduce((sum, b, i) => sum + getBlockHeight(b) + (i > 0 ? BLOCK_SPACING : 0), 0)
RECURSIVE SumHeights(_)
SumHeights(blocks) ==
    IF blocks = <<>> THEN 0 ELSE getBlockHeight(Head(blocks)) + SumHeights(Tail(blocks))

PageHeight(blocks) ==
    SumHeights(blocks) + (IF Len(blocks) > 1 THEN (Len(blocks) - 1) * BLOCK_SPACING ELSE 0)

-----------------------------------------------------------------------------
(* Phase A: splitContentBlock *)

WhitespaceChars == {" ", "\n", "\t", "\r", "\f"}
IsWhitespace(c) == c \in WhitespaceChars

\* String.prototype.trim
RECURSIVE TrimLeft(_)
TrimLeft(s) == IF s # <<>> /\ IsWhitespace(Head(s)) THEN TrimLeft(Tail(s)) ELSE s
RECURSIVE TrimRight(_)
TrimRight(s) ==
    IF s # <<>> /\ IsWhitespace(s[Len(s)]) THEN TrimRight(SubSeq(s, 1, Len(s) - 1)) ELSE s
Trim(s) == TrimRight(TrimLeft(s))

\* `${x || ''}` for an optional string field
OrEmpty(x) == IF Truthy(x) THEN x.s ELSE <<>>

\* ` (${i}/${n})`
PartSuffix(i, n) == <<" ", "(">> \o NatToStr(i) \o <<"/">> \o NatToStr(n) \o <<")">>

\* the caption of every part left as the block's
PartCaption_keepsCaption(block, i, totalParts) == Get(block, k_caption)

\* caption of part i of totalParts: totalParts > 1 always holds where this is used
PartCaption(block, i, totalParts) ==
    IF totalParts > 1
    THEN Str(Trim(OrEmpty(Get(block, k_caption)) \o PartSuffix(i, totalParts)))
    ELSE Get(block, k_caption)

\* splitCodeBlock that never splits
splitCodeBlock_neverSplits(block) == <<block>>

splitCodeBlock(block) ==
    LET lines == Get(block, k_lines).a
        totalParts == CeilDiv(Len(lines), MAX_CODE_LINES)
    IN  IF Len(lines) <= MAX_CODE_LINES THEN <<block>>
        ELSE [i \in 1..totalParts |->
                Obj((k_type :> Str(s_code))
                    @@ (k_language :> Get(block, k_language))
                    @@ (k_lines :> Arr(Slice(lines, (i - 1) * MAX_CODE_LINES, i * MAX_CODE_LINES)))
                    @@ (k_caption :> PartCaption(block, i, totalParts)))]

\* splitListBlock with the part count rounded down: the last, shorter part is lost
splitListBlock_dropsRemainder(block, type) ==
    LET items == Get(block, k_items).a
        totalParts == Len(items) \div MAX_LIST_ITEMS
    IN  IF Len(items) <= MAX_LIST_ITEMS THEN <<block>>
        ELSE [i \in 1..totalParts |->
                Obj((k_type :> Str(type))
                    @@ (k_items :> Arr(Slice(items, (i - 1) * MAX_LIST_ITEMS, i * MAX_LIST_ITEMS))))]

splitListBlock(block, type) ==
    LET items == Get(block, k_items).a
        totalParts == CeilDiv(Len(items), MAX_LIST_ITEMS)
    IN  IF Len(items) <= MAX_LIST_ITEMS THEN <<block>>
        ELSE [i \in 1..totalParts |->
                Obj((k_type :> Str(type))
                    @@ (k_items :> Arr(Slice(items, (i - 1) * MAX_LIST_ITEMS, i * MAX_LIST_ITEMS))))]

\* splitTableBlock whose parts each take one row of the next part as well
splitTableBlock_overlappingParts(block) ==
    LET rows == Get(block, k_rows).a
        totalParts == CeilDiv(Len(rows), MAX_TABLE_ROWS)
    IN  IF Len(rows) <= MAX_TABLE_ROWS THEN <<block>>
        ELSE [i \in 1..totalParts |->
                Obj((k_type :> Str(s_table))
                    @@ (k_headers :> Get(block, k_headers))
                    @@ (k_rows :> Arr(Slice(rows, (i - 1) * MAX_TABLE_ROWS, i * MAX_TABLE_ROWS + 1)))
                    @@ (k_caption :> PartCaption(block, i, totalParts)))]

splitTableBlock(block) ==
    LET rows == Get(block, k_rows).a
        totalParts == CeilDiv(Len(rows), MAX_TABLE_ROWS)
    IN  IF Len(rows) <= MAX_TABLE_ROWS THEN <<block>>
        ELSE [i \in 1..totalParts |->
                Obj((k_type :> Str(s_table))
                    @@ (k_headers :> Get(block, k_headers))
                    @@ (k_rows :> Arr(Slice(rows, (i - 1) * MAX_TABLE_ROWS, i * MAX_TABLE_ROWS)))
                    @@ (k_caption :> PartCaption(block, i, totalParts)))]

splitContentBlock(block) ==
    CASE TypeIs(block, s_code) -> splitCodeBlock(block)
      [] TypeIs(block, s_bullets) -> splitListBlock(block, s_bullets)
      [] TypeIs(block, s_numbered) -> splitListBlock(block, s_numbered)
      [] TypeIs(block, s_table) -> splitTableBlock(block)
      [] OTHER -> <<block>>

-----------------------------------------------------------------------------
(* Phase B: splitByContentSize *)

\* the packing loop with the inter-block spacing left out of newHeight
RECURSIVE PackLoop_noSpacing(_, _, _, _)
PackLoop_noSpacing(blocks, pages, currentBlocks, currentHeight) ==
    IF blocks = <<>>
    THEN IF Len(currentBlocks) > 0 THEN Append(pages, currentBlocks) ELSE pages
    ELSE LET block == Head(blocks)
             blockHeight == getBlockHeight(block)
             newHeight == currentHeight + blockHeight
         IN  IF Len(currentBlocks) = 0
             THEN PackLoop_noSpacing(Tail(blocks), pages, <<block>>, blockHeight)
             ELSE IF newHeight > MAX_CONTENT_HEIGHT
                  THEN PackLoop_noSpacing(Tail(blocks), Append(pages, currentBlocks), <<block>>, blockHeight)
                  ELSE PackLoop_noSpacing(Tail(blocks), pages, Append(currentBlocks, block), newHeight)

\* the packing loop that closes a page as soon as the budget is reached
RECURSIVE PackLoop_closesAtBudget(_, _, _, _)
PackLoop_closesAtBudget(blocks, pages, currentBlocks, currentHeight) ==
    IF blocks = <<>>
    THEN IF Len(currentBlocks) > 0 THEN Append(pages, currentBlocks) ELSE pages
    ELSE LET block == Head(blocks)
             blockHeight == getBlockHeight(block)
             newHeight == currentHeight + BLOCK_SPACING + blockHeight
         IN  IF Len(currentBlocks) = 0
             THEN PackLoop_closesAtBudget(Tail(blocks), pages, <<block>>, blockHeight)
             ELSE IF newHeight >= MAX_CONTENT_HEIGHT
                  THEN PackLoop_closesAtBudget(Tail(blocks), Append(pages, currentBlocks),
                                               <<block>>, blockHeight)
                  ELSE PackLoop_closesAtBudget(Tail(blocks), pages,
                                               Append(currentBlocks, block), newHeight)

\* the for-loop over blocks: state is (pages, currentBlocks, currentHeight)
RECURSIVE PackLoop(_, _, _, _)
PackLoop(blocks, pages, currentBlocks, currentHeight) ==
    IF blocks = <<>>
    THEN \* if (currentBlocks.length > 0) pages.push(currentBlocks)
         IF Len(currentBlocks) > 0 THEN Append(pages, currentBlocks) ELSE pages
    ELSE LET block == Head(blocks)
             blockHeight == getBlockHeight(block)
             newHeight == currentHeight + BLOCK_SPACING + blockHeight
         IN  IF Len(currentBlocks) = 0
             THEN PackLoop(Tail(blocks), pages, <<block>>, blockHeight)
             ELSE IF newHeight > MAX_CONTENT_HEIGHT
                  THEN PackLoop(Tail(blocks), Append(pages, currentBlocks), <<block>>, blockHeight)
                  ELSE PackLoop(Tail(blocks), pages, Append(currentBlocks, block), newHeight)

\* step 2 left out: an undersized last page stays
MergeLastPage_keepsLastPage(pages) == pages

\* step 2: merge an undersized last page into the previous page
MergeLastPage(pages) ==
    LET n == Len(pages) IN
    IF n > 1 /\ PageHeight(pages[n]) < MIN_CONTENT_HEIGHT
    THEN Append(SubSeq(pages, 1, n - 2), pages[n - 1] \o pages[n])
    ELSE pages

\* PagesToSlides numbering the pages from 0
PagesToSlides_zeroBased(s, pages) ==
    IF Len(pages) = 1
    THEN <<With(s, k_content, Arr(pages[1]))>>
    ELSE [i \in 1..Len(pages) |->
            With(With(s, k_content, Arr(pages[i])),
                 k_title, Str(OrEmpty(Get(s, k_title)) \o PartSuffix(i - 1, Len(pages))))]

\* step 3: one slide per page, titles suffixed when there are several pages
PagesToSlides(s, pages) ==
    IF Len(pages) = 1
    THEN <<With(s, k_content, Arr(pages[1]))>>
    ELSE [i \in 1..Len(pages) |->
            With(With(s, k_content, Arr(pages[i])),
                 k_title, Str(OrEmpty(Get(s, k_title)) \o PartSuffix(i, Len(pages))))]

\* splitByContentSize without the rule that the first block of a page is
\* always accepted: a block taller than the budget closes the (empty) page
RECURSIVE PackLoop_noFirstBlockRule(_, _, _, _)
PackLoop_noFirstBlockRule(blocks, pages, currentBlocks, currentHeight) ==
    IF blocks = <<>>
    THEN IF Len(currentBlocks) > 0 THEN Append(pages, currentBlocks) ELSE pages
    ELSE LET block == Head(blocks)
             blockHeight == getBlockHeight(block)
             newHeight == IF Len(currentBlocks) = 0 THEN blockHeight
                          ELSE currentHeight + BLOCK_SPACING + blockHeight
         IN  IF newHeight > MAX_CONTENT_HEIGHT
             THEN PackLoop_noFirstBlockRule(Tail(blocks), Append(pages, currentBlocks),
                                            <<block>>, blockHeight)
             ELSE PackLoop_noFirstBlockRule(Tail(blocks), pages,
                                            Append(currentBlocks, block), newHeight)

splitByContentSize_noFirstBlockRule(s, blocks) ==
    IF Len(blocks) <= 1
    THEN <<With(s, k_content, Arr(blocks))>>
    ELSE PagesToSlides(s, MergeLastPage(PackLoop_noFirstBlockRule(blocks, <<>>, <<>>, 0)))

splitByContentSize(s, blocks) ==
    IF Len(blocks) <= 1
    THEN <<With(s, k_content, Arr(blocks))>>
    ELSE PagesToSlides(s, MergeLastPage(PackLoop(blocks, <<>>, <<>>, 0)))

LayoutIs(s, lit) == Get(s, k_layout) = Str(lit)

\* expandedBlocks of splitSingleSlide
ExpandBlocks(content) == Flatten([i \in 1..Len(content) |-> splitContentBlock(content[i])])

\* splitSingleSlide without the early returns for the other layouts
splitSingleSlide_repacksEveryLayout(s) ==
    IF ~Truthy(Get(s, k_content)) \/ Len(Get(s, k_content).a) = 0 THEN <<s>>
    ELSE splitByContentSize(s, ExpandBlocks(Get(s, k_content).a))

splitSingleSlide(s) ==
    IF LayoutIs(s, s_title_only) \/ LayoutIs(s, s_section) THEN <<s>>
    ELSE IF LayoutIs(s, s_two_column) \/ LayoutIs(s, s_comparison) THEN <<s>>
    ELSE IF ~Truthy(Get(s, k_content)) \/ Len(Get(s, k_content).a) = 0 THEN <<s>>
    ELSE splitByContentSize(s, ExpandBlocks(Get(s, k_content).a))

autoSplitSlides(presentation) ==
    Obj(k_slides :> Arr(Flatten([i \in 1..Len(Get(presentation, k_slides).a) |->
                                    splitSingleSlide(Get(presentation, k_slides).a[i])])))

\* @deprecated alias kept by the source
truncatePresentation(presentation) == autoSplitSlides(presentation)

-----------------------------------------------------------------------------
(* Block normalizer: parseMarkdownTable and normalizeContentBlock *)

\* index of the first occurrence of character c in s, 0 when there is none
IndexOf(s, c) ==
    IF \E i \in 1..Len(s) : s[i] = c
    THEN CHOOSE i \in 1..Len(s) : s[i] = c /\ \A j \in 1..(i - 1) : s[j] # c
    ELSE 0

\* String.prototype.split(c) for a one-character separator c
RECURSIVE Split(_, _)
Split(s, c) ==
    LET i == IndexOf(s, c) IN
    IF i = 0 THEN <<s>>
    ELSE <<SubSeq(s, 1, i - 1)>> \o Split(SubSeq(s, i + 1, Len(s)), c)

\* line.split('|').map(cell => cell.trim()).filter(cell => cell.length > 0)
SplitCells(line) ==
    LET cells == Split(line, "|")
        trimmed == [i \in 1..Len(cells) |-> Trim(cells[i])]
    IN  SelectSeq(trimmed, LAMBDA cell : Len(cell) > 0)

\* number of leading characters of s, from position i on, that lie in chars
RECURSIVE RunLength(_, _, _)
RunLength(s, i, chars) ==
    IF i <= Len(s) /\ s[i] \in chars THEN 1 + RunLength(s, i + 1, chars) ELSE 0

\* line.match(/^\|?\s*[-:]+\s*\|/)
MatchesSeparator(line) ==
    LET i0 == IF Len(line) >= 1 /\ line[1] = "|" THEN 2 ELSE 1
        i1 == i0 + RunLength(line, i0, WhitespaceChars)
        n == RunLength(line, i1, {"-", ":"})
        i2 == i1 + n
        i3 == i2 + RunLength(line, i2, WhitespaceChars)
    IN  n >= 1 /\ i3 <= Len(line) /\ line[i3] = "|"

\* parseMarkdownTable: null, or a record of headers and rows (character
\* sequences, not yet wrapped as values)
parseMarkdownTable(text) ==
    LET lines == SelectSeq(Split(text, "\n"), LAMBDA line : Len(Trim(line)) > 0)
        headers == SplitCells(lines[1])
        dataStartIndex == IF MatchesSeparator(lines[2]) THEN 2 ELSE 1
        dataLines == SelectSeq(SubSeq(lines, dataStartIndex + 1, Len(lines)),
                               LAMBDA line : IndexOf(line, "|") # 0)
        cellRows == [i \in 1..Len(dataLines) |-> SplitCells(dataLines[i])]
        rows == SelectSeq(cellRows, LAMBDA cells : Len(cells) > 0)
    IN  IF Len(lines) < 2 THEN Null
        ELSE IF IndexOf(lines[1], "|") = 0 THEN Null
        ELSE IF Len(headers) = 0 THEN Null
        ELSE IF Len(rows) = 0 THEN Null
        ELSE [headers |-> headers, rows |-> rows]

\* array.join(',') of already converted elements
RECURSIVE JoinComma(_)
JoinComma(parts) ==
    IF parts = <<>> THEN <<>>
    ELSE IF Len(parts) = 1 THEN parts[1]
    ELSE parts[1] \o <<",">> \o JoinComma(Tail(parts))

\* String(x) for values a JSON document can hold (numbers are integers)
RECURSIVE JSString(_)
JSString(x) ==
    CASE x.t = "str" -> x.s
      [] x.t = "num" -> IF x.n < 0 THEN <<"-">> \o NatToStr(0 - x.n) ELSE NatToStr(x.n)
      [] x.t = "float" -> x.lit
      [] x.t = "null" -> s_null
      [] x.t = "undef" -> s_undefined
      [] x.t = "bool" -> IF x.b THEN s_true ELSE s_false
      [] x.t = "arr" ->
           JoinComma([i \in 1..Len(x.a) |->
                        IF x.a[i].t \in {"null", "undef"} THEN <<>> ELSE JSString(x.a[i])])
      [] OTHER -> s_object_Object

\* arr.filter(x => typeof x === 'string')
StringsOf(a) == SelectSeq(a, IsString)

\* arr.filter(row => Array.isArray(row)).map(row => row.map(cell => String(cell)))
RowsOf(a) ==
    LET arrays == SelectSeq(a, IsArray)
    IN  [i \in 1..Len(arrays) |->
            Arr([j \in 1..Len(arrays[i].a) |-> Str(JSString(arrays[i].a[j]))])]

\* typeof x === 'string' ? x : undefined
StringOrUndef(x) == IF IsString(x) THEN x ELSE Undef

\* s.split('\n') as an array of string values
SplitLines(s) == LET parts == Split(s, "\n") IN [i \in 1..Len(parts) |-> Str(parts[i])]

NormalizeParagraph(b) ==
    IF IsString(Get(b, k_text))
    THEN Obj((k_type :> Str(s_paragraph))
             @@ (k_text :> Get(b, k_text))
             @@ (k_emphasis :> IF Get(b, k_emphasis) \in {Str(s_normal), Str(s_highlight), Str(s_muted)}
                               THEN Get(b, k_emphasis) ELSE Undef))
    ELSE Null

\* currently accepts a non-empty items array whatever its elements are
NormalizeList(b) ==
    IF IsArray(Get(b, k_items)) /\ Len(Get(b, k_items).a) > 0
    THEN Obj((k_type :> Get(b, k_type))
             @@ (k_items :> Arr(StringsOf(Get(b, k_items).a))))
    ELSE Null

NormalizeCode(b) ==
    LET lines ==
            IF IsArray(Get(b, k_lines)) /\ Len(Get(b, k_lines).a) > 0
            THEN StringsOf(Get(b, k_lines).a)
            ELSE IF IsString(Get(b, k_code)) THEN SplitLines(Get(b, k_code).s)
            ELSE IF IsString(Get(b, k_content)) THEN SplitLines(Get(b, k_content).s)
            ELSE IF IsString(Get(b, k_text)) THEN SplitLines(Get(b, k_text).s)
            ELSE <<>>
        language ==
            IF IsString(Get(b, k_language)) /\ Len(Get(b, k_language).s) > 0
            THEN Get(b, k_language)
            ELSE IF IsString(Get(b, k_lang)) /\ Len(Get(b, k_lang).s) > 0
            THEN Get(b, k_lang)
            ELSE Str(s_text)
    IN  IF Len(lines) = 0 THEN Null
        ELSE Obj((k_type :> Str(s_code))
                 @@ (k_language :> language)
                 @@ (k_lines :> Arr(lines))
                 @@ (k_caption :> StringOrUndef(Get(b, k_caption))))

\* the generated header of column i: the one character U+5217 followed by i
PositionalHeader(i) == Str(<<"U+5217">> \o NatToStr(i))

NormalizeTable(b) ==
    LET headers0 ==
            IF IsArray(Get(b, k_headers)) /\ Len(Get(b, k_headers).a) > 0
            THEN StringsOf(Get(b, k_headers).a) ELSE <<>>
        rows0 ==
            IF IsArray(Get(b, k_rows)) THEN RowsOf(Get(b, k_rows).a)
            ELSE IF IsArray(Get(b, k_data)) THEN RowsOf(Get(b, k_data).a)
            ELSE <<>>
        parsed ==
            IF (Len(headers0) = 0 \/ Len(rows0) = 0) /\ IsString(Get(b, k_text))
            THEN parseMarkdownTable(Get(b, k_text).s) ELSE Null
        headers1 ==
            IF parsed # Null THEN [i \in 1..Len(parsed.headers) |-> Str(parsed.headers[i])]
            ELSE headers0
        rows ==
            IF parsed # Null
            THEN [i \in 1..Len(parsed.rows) |->
                    Arr([j \in 1..Len(parsed.rows[i]) |-> Str(parsed.rows[i][j])])]
            ELSE rows0
        headers ==
            IF Len(headers1) = 0 /\ Len(rows) > 0
            THEN [i \in 1..Len(rows[1].a) |-> PositionalHeader(i)]
            ELSE headers1
    IN  IF Len(headers) = 0 \/ Len(rows) = 0 THEN Null
        ELSE Obj((k_type :> Str(s_table))
                 @@ (k_headers :> Arr(headers))
                 @@ (k_rows :> Arr(rows))
                 @@ (k_caption :> StringOrUndef(Get(b, k_caption))))

\* the quote branch that returns a quote only when it has an author
NormalizeQuote_requiresAuthor(b) ==
    IF IsString(Get(b, k_text)) /\ IsString(Get(b, k_author))
    THEN Obj((k_type :> Str(s_quote))
             @@ (k_text :> Get(b, k_text))
             @@ (k_author :> Get(b, k_author)))
    ELSE Null

NormalizeQuote(b) ==
    IF IsString(Get(b, k_text))
    THEN Obj((k_type :> Str(s_quote))
             @@ (k_text :> Get(b, k_text))
             @@ (k_author :> StringOrUndef(Get(b, k_author))))
    ELSE IF IsString(Get(b, k_content))
    THEN Obj((k_type :> Str(s_quote))
             @@ (k_text :> Get(b, k_content))
             @@ (k_author :> StringOrUndef(Get(b, k_author))))
    ELSE Null

\* normalizeContentBlock that hands a block of an unknown type on unchanged
normalizeContentBlock_keepsUnknownType(block) ==
    IF ~IsObjectLike(block) THEN Null
    ELSE IF ~IsString(Get(block, k_type)) THEN Null
    ELSE CASE TypeIs(block, s_paragraph) -> NormalizeParagraph(block)
           [] TypeIs(block, s_bullets) \/ TypeIs(block, s_numbered) -> NormalizeList(block)
           [] TypeIs(block, s_code) -> NormalizeCode(block)
           [] TypeIs(block, s_table) -> NormalizeTable(block)
           [] TypeIs(block, s_quote) -> NormalizeQuote(block)
           [] OTHER -> block

\* normalizeContentBlock: a content block, or null
normalizeContentBlock(block) ==
    IF ~IsObjectLike(block) THEN Null
    ELSE IF ~IsString(Get(block, k_type)) THEN Null
    ELSE CASE TypeIs(block, s_paragraph) -> NormalizeParagraph(block)
           [] TypeIs(block, s_bullets) \/ TypeIs(block, s_numbered) -> NormalizeList(block)
           [] TypeIs(block, s_code) -> NormalizeCode(block)
           [] TypeIs(block, s_table) -> NormalizeTable(block)
           [] TypeIs(block, s_quote) -> NormalizeQuote(block)
           [] OTHER -> Null

\* isValidContentBlock
isValidContentBlock(block) == normalizeContentBlock(block) # Null

-----------------------------------------------------------------------------
(* JSON.parse: a recursive-descent parser over character sequences.  A     *)
(* character outside ASCII, the backspace and the backtick are written as  *)
(* one-character tokens "U+XXXX".                                          *)

\* the outcome of a JSON.parse call that throws
ParseError == [t |-> "error"]

JsonWhitespace == {" ", "\t", "\n", "\r"}
Digits == {"0", "1", "2", "3", "4", "5", "6", "7", "8", "9"}
HexDigits == Digits \cup {"a", "b", "c", "d", "e", "f", "A", "B", "C", "D", "E", "F"}
\* characters below U+0020, which a string literal may not hold unescaped
ControlChars == {"\n", "\t", "\r", "\f", "U+0008"}
EscapeLetters == {"\"", "\\", "/", "b", "f", "n", "r", "t"}

\* the character a backslash escape stands for
EscapeChar(c) ==
    CASE c = "b" -> "U+0008"
      [] c = "f" -> "\f"
      [] c = "n" -> "\n"
      [] c = "r" -> "\r"
      [] c = "t" -> "\t"
      [] OTHER -> c

\* result of a parsing step: the value read and the position after it
Fail == [ok |-> FALSE, val |-> Undef, pos |-> 0]
Ok(v, p) == [ok |-> TRUE, val |-> v, pos |-> p]

StartsWithAt(s, i, lit) ==
    i + Len(lit) - 1 <= Len(s) /\ SubSeq(s, i, i + Len(lit) - 1) = lit
EndsWith(s, lit) ==
    Len(s) >= Len(lit) /\ SubSeq(s, Len(s) - Len(lit) + 1, Len(s)) = lit

\* first position from i on that holds no JSON white space
SkipWs(s, i) == i + RunLength(s, i, JsonWhitespace)

DigitValue(c) == CHOOSE d \in 0..9 : Digit(d) = c
RECURSIVE NatOf(_)
NatOf(ds) ==
    IF ds = <<>> THEN 0
    ELSE NatOf(SubSeq(ds, 1, Len(ds) - 1)) * 10 + DigitValue(ds[Len(ds)])

\* the body of a string literal from position i on, acc the characters read
RECURSIVE ParseStringChars(_, _, _)
ParseStringChars(s, i, acc) ==
    IF i > Len(s) THEN Fail
    ELSE IF s[i] = "\"" THEN Ok(Str(acc), i + 1)
    ELSE IF s[i] \in ControlChars THEN Fail
    ELSE IF s[i] # "\\" THEN ParseStringChars(s, i + 1, Append(acc, s[i]))
    ELSE IF i + 1 > Len(s) THEN Fail
    ELSE IF s[i + 1] \in EscapeLetters
         THEN ParseStringChars(s, i + 2, Append(acc, EscapeChar(s[i + 1])))
    ELSE IF s[i + 1] = "u" /\ i + 5 <= Len(s) /\ \A j \in (i + 2)..(i + 5) : s[j] \in HexDigits
         THEN ParseStringChars(s, i + 6,
                  Append(acc, "U+" \o s[i + 2] \o s[i + 3] \o s[i + 4] \o s[i + 5]))
    ELSE Fail

\* a number literal at position i: -? (0 | [1-9][0-9]*) (. [0-9]+)? ([eE] [+-]? [0-9]+)?
ParseNumber(s, i) ==
    LET neg == s[i] = "-"
        i1 == IF neg THEN i + 1 ELSE i
        run == RunLength(s, i1, Digits)
        intLen == IF run > 0 /\ s[i1] = "0" THEN 1 ELSE run
        i2 == i1 + intLen
        hasFrac == i2 <= Len(s) /\ s[i2] = "."
        fracLen == IF hasFrac THEN RunLength(s, i2 + 1, Digits) ELSE 0
        i3 == IF hasFrac THEN i2 + 1 + fracLen ELSE i2
        hasExp == i3 <= Len(s) /\ s[i3] \in {"e", "E"}
        i4 == IF hasExp /\ i3 + 1 <= Len(s) /\ s[i3 + 1] \in {"+", "-"} THEN i3 + 2 ELSE i3 + 1
        expLen == IF hasExp THEN RunLength(s, i4, Digits) ELSE 0
        i5 == IF hasExp THEN i4 + expLen ELSE i3
        value == NatOf(SubSeq(s, i1, i2 - 1))
    IN  IF intLen = 0 THEN Fail
        ELSE IF hasFrac /\ fracLen = 0 THEN Fail
        ELSE IF hasExp /\ expLen = 0 THEN Fail
        ELSE IF hasFrac \/ hasExp THEN Ok(Float(SubSeq(s, i, i5 - 1)), i5)
        ELSE Ok(Num(IF neg THEN 0 - value ELSE value), i5)

\* one of the literals true, false and null at position i
ParseLiteral(s, i) ==
    IF StartsWithAt(s, i, s_true) THEN Ok(Bool(TRUE), i + 4)
    ELSE IF StartsWithAt(s, i, s_false) THEN Ok(Bool(FALSE), i + 5)
    ELSE IF StartsWithAt(s, i, s_null) THEN Ok(Null, i + 4)
    ELSE Fail

RECURSIVE ParseValue(_, _)
RECURSIVE ParseElements(_, _, _)
RECURSIVE ParseMembers(_, _, _)

\* a value, after optional white space, at position i0
ParseValue(s, i0) ==
    LET i == SkipWs(s, i0) IN
    IF i > Len(s) THEN Fail
    ELSE IF s[i] = "{"
         THEN LET j == SkipWs(s, i + 1) IN
              IF j <= Len(s) /\ s[j] = "}" THEN Ok(Obj(<<>>), j + 1)
              ELSE ParseMembers(s, j, <<>>)
    ELSE IF s[i] = "["
         THEN LET j == SkipWs(s, i + 1) IN
              IF j <= Len(s) /\ s[j] = "]" THEN Ok(Arr(<<>>), j + 1)
              ELSE ParseElements(s, j, <<>>)
    ELSE IF s[i] = "\"" THEN ParseStringChars(s, i + 1, <<>>)
    ELSE IF s[i] = "-" \/ s[i] \in Digits THEN ParseNumber(s, i)
    ELSE ParseLiteral(s, i)

\* the elements of an array from position i on, up to its closing bracket
ParseElements(s, i, acc) ==
    LET r == ParseValue(s, i)
        j == SkipWs(s, r.pos)
    IN  IF ~r.ok THEN Fail
        ELSE IF j > Len(s) THEN Fail
        ELSE IF s[j] = "," THEN ParseElements(s, j + 1, Append(acc, r.val))
        ELSE IF s[j] = "]" THEN Ok(Arr(Append(acc, r.val)), j + 1)
        ELSE Fail

\* the members of an object from position i on, up to its closing brace; a
\* repeated property name keeps its last value
ParseMembers(s, i, acc) ==
    LET i1 == SkipWs(s, i)
        key == IF i1 <= Len(s) /\ s[i1] = "\"" THEN ParseStringChars(s, i1 + 1, <<>>) ELSE Fail
        c == SkipWs(s, key.pos)
        r == IF key.ok /\ c <= Len(s) /\ s[c] = ":" THEN ParseValue(s, c + 1) ELSE Fail
        j == SkipWs(s, r.pos)
    IN  IF ~r.ok THEN Fail
        ELSE IF j > Len(s) THEN Fail
        ELSE IF s[j] = "," THEN ParseMembers(s, j + 1, (key.val.s :> r.val) @@ acc)
        ELSE IF s[j] = "}" THEN Ok(Obj((key.val.s :> r.val) @@ acc), j + 1)
        ELSE Fail

\* JSON.parse(text): the value, or ParseError where JSON.parse throws
JSONParse(text) ==
    LET r == ParseValue(text, 1) IN
    IF r.ok /\ SkipWs(text, r.pos) > Len(text) THEN r.val ELSE ParseError

-----------------------------------------------------------------------------
(* Textual repairs: cleanJsonString, tryFixJson, tryFixTruncatedJson *)

Backtick == "U+0060"
s_fence == <<Backtick, Backtick, Backtick>>
s_fence_json == s_fence \o <<"j", "s", "o", "n">>
s_quoted_slides == <<"\"">> \o k_slides \o <<"\"">>

cleanJsonString(input) ==
    LET trimmed == Trim(input)
        opened == IF StartsWithAt(trimmed, 1, s_fence_json) THEN Slice(trimmed, 7, Len(trimmed))
                  ELSE IF StartsWithAt(trimmed, 1, s_fence) THEN Slice(trimmed, 3, Len(trimmed))
                  ELSE trimmed
        closed == IF EndsWith(opened, s_fence) THEN Slice(opened, 0, Len(opened) - 3)
                  ELSE opened
    IN  Trim(closed)

\* the characters of s at the positions that satisfy Keep
KeepPositions(s, Keep(_)) ==
    LET idx == SelectSeq([i \in 1..Len(s) |-> i], Keep)
    IN  [n \in 1..Len(idx) |-> s[idx[n]]]

\* whether /,(\s*[}\]])/ matches at position i
IsTrailingComma(s, i) ==
    /\ s[i] = ","
    /\ LET j == i + 1 + RunLength(s, i + 1, WhitespaceChars)
       IN  j <= Len(s) /\ s[j] \in {"}", "]"}

LineTerminators == {"\n", "\r"}

\* whether /(?<!\\)\n(?=[^"]*"[^"]*$)/m matches at position i: a line feed not
\* preceded by a backslash, whose rest holds a quote that is the only quote
\* up to some later end of line
IsNewlineInString(s, i) ==
    /\ s[i] = "\n"
    /\ (i = 1 \/ s[i - 1] # "\\")
    /\ \E q \in (i + 1)..Len(s) :
          /\ s[q] = "\""
          /\ \A j \in (i + 1)..(q - 1) : s[j] # "\""
          /\ \E p \in (q + 1)..(Len(s) + 1) :
                /\ p = Len(s) + 1 \/ s[p] \in LineTerminators
                /\ \A j \in (q + 1)..(p - 1) : s[j] # "\""

tryFixJson(input) ==
    LET noCommas == KeepPositions(input, LAMBDA i : ~IsTrailingComma(input, i))
    IN  Flatten([i \in 1..Len(noCommas) |->
                    IF IsNewlineInString(noCommas, i) THEN <<"\\", "n">> ELSE <<noCommas[i]>>])

\* where /"slides"\s*:\s*\[/ matched from position i ends, 0 when it does not match
SlidesMarkerEndAt(s, i) ==
    LET c == i + 8 + RunLength(s, i + 8, WhitespaceChars)
        b == c + 1 + RunLength(s, c + 1, WhitespaceChars)
    IN  IF StartsWithAt(s, i, s_quoted_slides) /\ c <= Len(s) /\ s[c] = ":"
           /\ b <= Len(s) /\ s[b] = "["
        THEN b ELSE 0

\* the end of the first match of the marker in s, 0 when there is none
SlidesMarkerEnd(s) ==
    LET starts == {i \in 1..Len(s) : SlidesMarkerEndAt(s, i) > 0}
    IN  IF starts = {} THEN 0
        ELSE SlidesMarkerEndAt(s, CHOOSE i \in starts : \A j \in starts : i <= j)

\* the variables of the scanning loop of tryFixTruncatedJson as the loop is
\* entered; i and lastCompleteSlideEnd are 0-based indices as in the source
ScanStart(startIndex) ==
    [i |-> startIndex, bracketCount |-> 1, braceCount |-> 0, lastCompleteSlideEnd |-> -1,
     inString |-> FALSE, escapeNext |-> FALSE]

\* one turn of the loop without the string-literal state: quotes and
\* backslashes are passed over like any other character
ScanStep_ignoresStrings(s, st) ==
    LET char == s[st.i + 1]
        next == [st EXCEPT !.i = @ + 1]
    IN  IF char = "{" THEN [next EXCEPT !.braceCount = @ + 1]
        ELSE IF char = "}"
             THEN [next EXCEPT !.braceCount = @ - 1,
                               !.lastCompleteSlideEnd =
                                   IF st.braceCount = 1 /\ st.bracketCount = 1 THEN st.i ELSE @]
        ELSE IF char = "[" THEN [next EXCEPT !.bracketCount = @ + 1]
        ELSE IF char = "]" THEN [next EXCEPT !.bracketCount = @ - 1]
        ELSE next

RECURSIVE ScanLoop_ignoresStrings(_, _, _)
ScanLoop_ignoresStrings(s, st, turns) ==
    IF st.i >= Len(s) \/ turns = 0 THEN st
    ELSE IF turns = 1 THEN ScanStep_ignoresStrings(s, st)
    ELSE ScanLoop_ignoresStrings(s, ScanLoop_ignoresStrings(s, st, turns \div 2),
                                 turns - turns \div 2)

tryFixTruncatedJson_ignoresStrings(input) ==
    LET m == SlidesMarkerEnd(input)
        st == ScanLoop_ignoresStrings(input, ScanStart(m), Len(input))
    IN  IF m = 0 THEN input
        ELSE IF (st.bracketCount # 0 \/ st.braceCount # 0) /\ st.lastCompleteSlideEnd > 0
             THEN Slice(input, 0, st.lastCompleteSlideEnd + 1) \o <<"]", "}">>
        ELSE input

\* one turn of the scanning loop: the character at index i, then i++
ScanStep(s, st) ==
    LET char == s[st.i + 1]
        next == [st EXCEPT !.i = @ + 1]
    IN  IF st.escapeNext THEN [next EXCEPT !.escapeNext = FALSE]
        ELSE IF char = "\\" THEN [next EXCEPT !.escapeNext = TRUE]
        ELSE IF char = "\"" THEN [next EXCEPT !.inString = ~@]
        ELSE IF st.inString THEN next
        ELSE IF char = "{" THEN [next EXCEPT !.braceCount = @ + 1]
        ELSE IF char = "}"
             THEN [next EXCEPT !.braceCount = @ - 1,
                               !.lastCompleteSlideEnd =
                                   IF st.braceCount = 1 /\ st.bracketCount = 1 THEN st.i ELSE @]
        ELSE IF char = "[" THEN [next EXCEPT !.bracketCount = @ + 1]
        ELSE IF char = "]" THEN [next EXCEPT !.bracketCount = @ - 1]
        ELSE next

\* the next turns of the loop, fewer when i reaches input.length first; the
\* turns are halved so that the evaluation nests only logarithmically deep
RECURSIVE ScanLoop(_, _, _)
ScanLoop(s, st, turns) ==
    IF st.i >= Len(s) \/ turns = 0 THEN st
    ELSE IF turns = 1 THEN ScanStep(s, st)
    ELSE ScanLoop(s, ScanLoop(s, st, turns \div 2), turns - turns \div 2)

tryFixTruncatedJson(input) ==
    LET m == SlidesMarkerEnd(input)
        st == ScanLoop(input, ScanStart(m), Len(input))
    IN  IF m = 0 THEN input
        ELSE IF (st.bracketCount # 0 \/ st.braceCount # 0) /\ st.lastCompleteSlideEnd > 0
             THEN Slice(input, 0, st.lastCompleteSlideEnd + 1) \o <<"]", "}">>
        ELSE input

\* 0 when the character c does not occur in s, else its last position
LastIndexOf(s, c) ==
    LET at == {i \in 1..Len(s) : s[i] = c}
    IN  IF at = {} THEN 0 ELSE CHOOSE i \in at : \A j \in at : j <= i

\* cleaned.match(/(\{[\s\S]*\}|\[[\s\S]*\])/): the leftmost brace or bracket
\* that has a matching closer somewhere after it, up to the last such closer
ExtractJson(s) ==
    LET lastBrace == LastIndexOf(s, "}")
        lastBracket == LastIndexOf(s, "]")
        starts == {i \in 1..Len(s) : \/ s[i] = "{" /\ lastBrace > i
                                     \/ s[i] = "[" /\ lastBracket > i}
        first == CHOOSE i \in starts : \A j \in starts : i <= j
    IN  IF starts = {} THEN [found |-> FALSE, text |-> <<>>]
        ELSE [found |-> TRUE,
              text |-> SubSeq(s, first, IF s[first] = "{" THEN lastBrace ELSE lastBracket)]

\* the candidate texts with the truncation repair tried before tryFixJson
Candidates_truncationFirst(cleaned) ==
    <<cleaned, tryFixTruncatedJson(cleaned), tryFixJson(cleaned)>>
    \o [k \in 1..(IF ExtractJson(cleaned).found THEN 1 ELSE 0) |->
           tryFixTruncatedJson(ExtractJson(cleaned).text)]

\* the candidate texts of the try/catch chain in the order they are handed
\* to JSON.parse: cleaned, tryFixJson(cleaned), tryFixTruncatedJson(cleaned)
\* and, when the extraction pattern matches, the repaired extract
Candidates(cleaned) ==
    <<cleaned, tryFixJson(cleaned)>>
    \o [k \in 1..(IF ExtractJson(cleaned).found THEN 2 ELSE 1) |->
           tryFixTruncatedJson(IF k = 1 THEN cleaned ELSE ExtractJson(cleaned).text)]

\* jsonData: the value of the first candidate JSON.parse accepts, ParseError
\* when it throws on all of them
RECURSIVE FirstParsed(_, _)
\* the catch clause: parsed is the outcome of candidate k
CaughtOr(parsed, texts, k) ==
    IF parsed = ParseError THEN FirstParsed(texts, k + 1) ELSE parsed

FirstParsed(texts, k) ==
    IF k > Len(texts) THEN ParseError ELSE CaughtOr(JSONParse(texts[k]), texts, k)

LenientJsonData(cleaned) == FirstParsed(Candidates(cleaned), 1)

-----------------------------------------------------------------------------
(* Strict validation: presentationDSLSchema.safeParse (src/lib/dsl-schema.ts). *)
(* Each schema is modelled by a validity predicate and by the value zod      *)
(* returns for a valid input: the input without its unknown properties.      *)

Layouts == {s_title_only, s_title_content, s_two_column, s_section, s_comparison}
Emphases == {s_normal, s_highlight, s_muted}

\* zod objects accept plain objects only
IsPlainObject(x) == x.t = "obj"

\* z.string().min(lo).max(hi)
IsStringBetween(x, lo, hi) == IsString(x) /\ lo <= Len(x.s) /\ Len(x.s) <= hi
\* z.string().optional()
IsOptionalString(x) == x = Undef \/ IsString(x)
\* z.array(z.string()).min(lo).max(hi)
IsStringArray(x, lo, hi) ==
    IsArray(x) /\ lo <= Len(x.a) /\ Len(x.a) <= hi /\ \A i \in 1..Len(x.a) : IsString(x.a[i])

paragraphBlockSchema(b) ==
    /\ IsStringBetween(Get(b, k_text), 1, MAX_PARAGRAPH_LENGTH)
    /\ \/ Get(b, k_emphasis) = Undef
       \/ IsString(Get(b, k_emphasis)) /\ Get(b, k_emphasis).s \in Emphases

\* bulletsBlockSchema and numberedBlockSchema, which differ in the type literal
listBlockSchema(b) ==
    /\ IsStringArray(Get(b, k_items), 1, MAX_LIST_ITEMS)
    /\ \A i \in 1..Len(Get(b, k_items).a) :
          IsStringBetween(Get(b, k_items).a[i], 1, MAX_LIST_ITEM_LENGTH)

codeBlockSchema(b) ==
    /\ IsString(Get(b, k_language)) /\ Len(Get(b, k_language).s) >= 1
    /\ IsStringArray(Get(b, k_lines), 1, MAX_CODE_LINES)
    /\ IsOptionalString(Get(b, k_caption))

tableBlockSchema(b) ==
    /\ IsStringArray(Get(b, k_headers), 1, MAX_TABLE_COLUMNS)
    /\ IsArray(Get(b, k_rows))
    /\ 1 <= Len(Get(b, k_rows).a) /\ Len(Get(b, k_rows).a) <= MAX_TABLE_ROWS
    /\ \A i \in 1..Len(Get(b, k_rows).a) :
          /\ IsArray(Get(b, k_rows).a[i])
          /\ \A j \in 1..Len(Get(b, k_rows).a[i].a) : IsString(Get(b, k_rows).a[i].a[j])
    /\ IsOptionalString(Get(b, k_caption))

quoteBlockSchema(b) ==
    /\ IsStringBetween(Get(b, k_text), 1, MAX_QUOTE_LENGTH)
    /\ IsOptionalString(Get(b, k_author))

\* z.discriminatedUnion('type', [...])
contentBlockSchema(b) ==
    /\ IsPlainObject(b)
    /\ CASE TypeIs(b, s_paragraph) -> paragraphBlockSchema(b)
         [] TypeIs(b, s_bullets) \/ TypeIs(b, s_numbered) -> listBlockSchema(b)
         [] TypeIs(b, s_code) -> codeBlockSchema(b)
         [] TypeIs(b, s_table) -> tableBlockSchema(b)
         [] TypeIs(b, s_quote) -> quoteBlockSchema(b)
         [] OTHER -> FALSE

\* the properties the schema of a block's kind declares
BlockKeys(b) ==
    CASE TypeIs(b, s_paragraph) -> {k_type, k_text, k_emphasis}
      [] TypeIs(b, s_bullets) \/ TypeIs(b, s_numbered) -> {k_type, k_items}
      [] TypeIs(b, s_code) -> {k_type, k_language, k_lines, k_caption}
      [] TypeIs(b, s_table) -> {k_type, k_headers, k_rows, k_caption}
      [] TypeIs(b, s_quote) -> {k_type, k_text, k_author}
      [] OTHER -> {}

SlideKeys == {k_layout, k_title, k_subtitle, k_content, k_leftContent, k_rightContent, k_notes}
ContentKeys == {k_content, k_leftContent, k_rightContent}

\* z.array(contentBlockSchema).max(n).optional()
IsOptionalBlocks(x, n) ==
    \/ x = Undef
    \/ IsArray(x) /\ Len(x.a) <= n /\ \A i \in 1..Len(x.a) : contentBlockSchema(x.a[i])

slideDSLSchema(s) ==
    /\ IsPlainObject(s)
    /\ IsString(Get(s, k_layout)) /\ Get(s, k_layout).s \in Layouts
    /\ Get(s, k_title) = Undef \/ IsStringBetween(Get(s, k_title), 0, MAX_TITLE_LENGTH)
    /\ Get(s, k_subtitle) = Undef \/ IsStringBetween(Get(s, k_subtitle), 0, MAX_SUBTITLE_LENGTH)
    /\ IsOptionalBlocks(Get(s, k_content), MAX_CONTENT_BLOCKS_PER_SLIDE)
    /\ IsOptionalBlocks(Get(s, k_leftContent), MAX_CONTENT_BLOCKS_PER_COLUMN)
    /\ IsOptionalBlocks(Get(s, k_rightContent), MAX_CONTENT_BLOCKS_PER_COLUMN)
    /\ IsOptionalString(Get(s, k_notes))

\* presentationDSLSchema applied to { slides: slidesArray }
presentationDSLSchema(slidesArray) ==
    Len(slidesArray) >= 1 /\ \A i \in 1..Len(slidesArray) : slideDSLSchema(slidesArray[i])

\* the parsed value of a valid block: its declared properties only
ParsedBlock(b) == Obj([k \in DOMAIN b.o \cap BlockKeys(b) |-> b.o[k]])

\* the parsed value of a valid slide
ParsedSlide(s) ==
    Obj([k \in DOMAIN s.o \cap SlideKeys |->
            IF k \in ContentKeys
            THEN Arr([i \in 1..Len(s.o[k].a) |-> ParsedBlock(s.o[k].a[i])])
            ELSE s.o[k]])

\* strictResult.data for a valid slidesArray
ParsedPresentation(slidesArray) ==
    Obj(k_slides :> Arr([i \in 1..Len(slidesArray) |-> ParsedSlide(slidesArray[i])]))

-----------------------------------------------------------------------------
(* parseDSLLenient *)

\* DSLParseResult; the error texts of the source are written by name
ErrJsonParse == "JSON parse failed"
ErrSlidesNotArray == "slides must be an array"
ErrUnrecognized == "unrecognized JSON structure"
ErrEmptySlides == "slides array is empty"
ErrNoValidSlides == "no valid slides"

\* the details the source gives with each error: a fixed text or null
DetailsOf(err) ==
    IF err = ErrUnrecognized THEN Str(<<"need { slides: [...] } or a bare array">>)
    ELSE IF err = ErrNoValidSlides THEN Str(<<"no slide could be parsed">>)
    ELSE Null

Failure(err) == [success |-> FALSE, error |-> err, details |-> DetailsOf(err), data |-> Undef]

\* e.message of the SyntaxError JSON.parse throws on text: a string that is
\* determined by the text parsed
ParseMessage(text) == Str(<<"SyntaxError in ">> \o text)

\* the failure returned when no candidate parses: its details are the
\* message of the error e caught from JSON.parse(cleaned)
JsonParseFailure(cleaned) ==
    [success |-> FALSE, error |-> ErrJsonParse, details |-> ParseMessage(cleaned), data |-> Undef]

Success(d) == [success |-> TRUE, error |-> "", details |-> Undef, data |-> d]

\* the mapping of a content array that stops at the first element that fails
NormalizedBlocks_stopsAtFailure(x) ==
    IF IsArray(x)
    THEN LET mapped == [i \in 1..Len(x.a) |-> normalizeContentBlock(x.a[i])]
             failed == {i \in 1..Len(mapped) : mapped[i] = Null}
         IN  Arr([i \in 1..(IF failed = {} THEN Len(mapped)
                            ELSE (CHOOSE i \in failed : \A j \in failed : i <= j) - 1) |->
                     mapped[i]])
    ELSE Undef

\* s.content.map(normalizeContentBlock).filter(b => b !== null), undefined
\* when the property is not an array
NormalizedBlocks(x) ==
    IF IsArray(x)
    THEN Arr(SelectSeq([i \in 1..Len(x.a) |-> normalizeContentBlock(x.a[i])],
                       LAMBDA b : b # Null))
    ELSE Undef

\* validSlide built from one element of slidesArray that passed the basic check
LenientSlide(s) ==
    Obj([k \in SlideKeys |->
            IF k = k_layout
            THEN IF IsString(Get(s, k_layout)) /\ Get(s, k_layout).s \in Layouts
                 THEN Get(s, k_layout) ELSE Str(s_title_content)
            ELSE IF k \in ContentKeys THEN NormalizedBlocks(Get(s, k))
            ELSE StringOrUndef(Get(s, k))])

\* validSlides that skips every element without one of the five layouts
LenientSlides_requiresLayout(slidesArray) ==
    LET kept == SelectSeq(slidesArray,
                          LAMBDA e : IsPlainObject(e) /\ IsString(Get(e, k_layout))
                                     /\ Get(e, k_layout).s \in Layouts)
    IN  [i \in 1..Len(kept) |-> LenientSlide(kept[i])]

\* validSlides: one slide for every element that is an object
LenientSlides(slidesArray) ==
    LET kept == SelectSeq(slidesArray, IsObjectLike)
    IN  [i \in 1..Len(kept) |-> LenientSlide(kept[i])]

\* the end of parseDSLLenient without the test for an empty validSlides
FromValidSlides_noEmptyCheck(validSlides) ==
    Success(truncatePresentation(Obj(k_slides :> Arr(validSlides))))

\* the end of parseDSLLenient, reached when strict validation has failed
FromValidSlides(validSlides) ==
    IF Len(validSlides) = 0 THEN Failure(ErrNoValidSlides)
    ELSE Success(truncatePresentation(Obj(k_slides :> Arr(validSlides))))

\* parseDSLLenient from the validation of slidesArray on
FromSlidesArray(slidesArray) ==
    IF Len(slidesArray) = 0 THEN Failure(ErrEmptySlides)
    ELSE IF presentationDSLSchema(slidesArray) THEN Success(ParsedPresentation(slidesArray))
    ELSE FromValidSlides(LenientSlides(slidesArray))

\* the value parseDSLLenient takes the slides from: jsonData itself when it
\* is an array, else its slides property, undefined when it has none
SlidesValue(data) ==
    IF IsArray(data) THEN data
    ELSE IF IsPlainObject(data) /\ k_slides \in DOMAIN data.o THEN Get(data, k_slides)
    ELSE Undef

\* FromJsonData that takes a slides property that is no array for an empty
\* slides array
FromJsonData_emptyForBadSlides(data) ==
    IF ~IsArray(data) /\ ~(IsPlainObject(data) /\ k_slides \in DOMAIN data.o)
    THEN Failure(ErrUnrecognized)
    ELSE IF ~IsArray(SlidesValue(data)) THEN Failure(ErrEmptySlides)
    ELSE FromSlidesArray(SlidesValue(data).a)

\* parseDSLLenient from the parsed jsonData on
FromJsonData(data) ==
    IF ~IsArray(data) /\ ~(IsPlainObject(data) /\ k_slides \in DOMAIN data.o)
    THEN Failure(ErrUnrecognized)
    ELSE IF ~IsArray(SlidesValue(data)) THEN Failure(ErrSlidesNotArray)
    ELSE FromSlidesArray(SlidesValue(data).a)

\* what parseDSLLenient returns for the cleaned text and the jsonData the
\* try/catch chain left
Returned(cleaned, data) ==
    IF data = ParseError THEN JsonParseFailure(cleaned) ELSE FromJsonData(data)

parseDSLLenient(input) ==
    Returned(cleanJsonString(input), LenientJsonData(cleanJsonString(input)))

-----------------------------------------------------------------------------
(* Inputs of the pagination specification *)

\* longest content array of a title-content input slide
MaxBlocks == 3
\* longest content array of an input slide of a pass-through layout
MaxPassBlocks == 2

\* the k-th leaf of a block: a short string made of a tag character and k
Leaf(tag, k) == Str(<<tag>> \o NatToStr(k))

Paragraph(n) == Obj((k_type :> Str(s_paragraph)) @@ (k_text :> Str(Rep("p", n))))
Bullets(n) == Obj((k_type :> Str(s_bullets)) @@ (k_items :> Arr([k \in 1..n |-> Leaf("b", k)])))
Numbered(n) == Obj((k_type :> Str(s_numbered)) @@ (k_items :> Arr([k \in 1..n |-> Leaf("n", k)])))
Code(n, caption) ==
    Obj((k_type :> Str(s_code)) @@ (k_language :> Str(s_text))
        @@ (k_lines :> Arr([k \in 1..n |-> Leaf("c", k)])) @@ (k_caption :> caption))
Table(n, caption) ==
    Obj((k_type :> Str(s_table)) @@ (k_headers :> Arr(<<Str(<<"H">>)>>))
        @@ (k_rows :> Arr([k \in 1..n |-> Arr(<<Leaf("r", k)>>)])) @@ (k_caption :> caption))
Quote(n, author) ==
    Obj((k_type :> Str(s_quote)) @@ (k_text :> Str(Rep("q", n))) @@ (k_author :> author))

\* content blocks of the inputs: within and beyond each DSL limit, and of
\* heights from the minimum to more than a page
InputBlocks ==
    { Paragraph(1), Paragraph(MAX_PARAGRAPH_LENGTH + 1), Paragraph(801),
      Bullets(MAX_LIST_ITEMS), Bullets(MAX_LIST_ITEMS + 1),
      Numbered(2 * MAX_LIST_ITEMS + 1),
      Code(MAX_CODE_LINES + 1, Str(<<"c">>)),
      Table(MAX_TABLE_ROWS + 1, Undef),
      Quote(10, Str(<<"A">>)) }

SeqsUpTo(S, n) == UNION {[1..m -> S] : m \in 0..n}

InputTitles == {Undef, Str(<<"T">>)}

MakeSlide(layout, title, content) ==
    Obj((k_layout :> Str(layout)) @@ (k_title :> title) @@ (k_content :> Arr(content)))

PassThroughLayouts == {s_title_only, s_section, s_two_column, s_comparison}

\* a slide of a column layout: leftContent and rightContent, no content
MakeColumnSlide(layout, left, right) ==
    Obj((k_layout :> Str(layout)) @@ (k_title :> Str(<<"T">>))
        @@ (k_leftContent :> Arr(left)) @@ (k_rightContent :> Arr(right)))

\* columns within and beyond the block-count, item-count and height limits
InputColumns ==
    { <<>>, <<Bullets(MAX_LIST_ITEMS)>>,
      <<Numbered(2 * MAX_LIST_ITEMS + 1), Paragraph(801)>>,
      <<Paragraph(1), Quote(10, Undef), Table(MAX_TABLE_ROWS + 1, Undef), Bullets(MAX_LIST_ITEMS + 1)>> }

\* five paragraphs of estimated heights 1.0, 1.0, 1.0, 1.0 and 3.0 inches
ExampleSlide ==
    MakeSlide(s_title_content, Str(<<"T">>),
              <<Paragraph(151), Paragraph(160), Paragraph(175), Paragraph(200), Paragraph(600)>>)

\* code and a table within their limits, and beyond them with captions, one
\* of which starts with a space
CaptionSlides ==
    {MakeSlide(s_title_content, Str(<<"T">>), c) :
        c \in {<<Code(2, Str(<<"k">>)), Table(2, Undef), Table(3, Str(<<"t">>))>>,
               <<Table(2 * MAX_TABLE_ROWS + 1, Str(<<" ", "t">>)), Code(MAX_CODE_LINES + 1, Undef)>>}}

InputSlides ==
    {MakeSlide(s_title_content, t, c) : t \in InputTitles, c \in SeqsUpTo(InputBlocks, MaxBlocks)}
    \cup {ExampleSlide} \cup CaptionSlides
    \cup {MakeSlide(l, t, c) : l \in PassThroughLayouts, t \in InputTitles,
                               c \in SeqsUpTo(InputBlocks, MaxPassBlocks)}
    \cup {MakeColumnSlide(l, left, right) : l \in {s_two_column, s_comparison},
                                            left \in InputColumns, right \in InputColumns}

-----------------------------------------------------------------------------
(* Specification of pagination: one call of splitSingleSlide *)

InitPaginate ==
    /\ pc = "start"
    /\ slide \in InputSlides
    /\ outSlides = <<>>
    /\ rawBlock = Undef /\ normBlock = Undef /\ renormBlock = Undef
    /\ jsonData = Undef /\ rawText = <<>> /\ parseResult = Undef
    /\ source = NoSource
    /\ RouteIdle /\ ToolsIdle

Paginate ==
    /\ pc = "start"
    /\ outSlides' = splitSingleSlide(slide)
    /\ pc' = "done"
    /\ UNCHANGED <<slide, rawBlock, normBlock, renormBlock, jsonData, rawText, parseResult, source>>
    /\ UNCHANGED <<routeVars, toolVars>>

NextPaginate == Paginate

SpecPaginate == InitPaginate /\ [][NextPaginate]_vars

-----------------------------------------------------------------------------
(* Inputs of the normalizer specification: values as JSON.parse produces them *)

\* the objects with, for each <<key, candidates>> pair of fields, one of the
\* candidate values under that key, or no such key when the candidate is Undef
RECURSIVE ObjectsFrom(_)
ObjectsFrom(fields) ==
    IF fields = <<>> THEN {<<>>}
    ELSE {IF v = Undef THEN f ELSE (Head(fields)[1] :> v) @@ f :
            v \in Head(fields)[2], f \in ObjectsFrom(Tail(fields))}

RawOfType(types, fields) ==
    {Obj((k_type :> Str(ty)) @@ f) : ty \in types, f \in ObjectsFrom(fields)}

RawTextBlocks ==
    RawOfType({s_paragraph, s_quote},
      <<<<k_text, {Undef, Str(<<"h", "i">>), Str(<<>>), Num(1)}>>,
       <<k_emphasis, {Undef, Str(s_highlight), Str(<<"b", "o", "l", "d">>), Num(1)}>>,
       <<k_content, {Undef, Str(<<"c">>)}>>,
       <<k_author, {Undef, Str(<<"A">>), Num(1)}>>>>)

RawListBlocks ==
    RawOfType({s_bullets, s_numbered},
      <<<<k_items, {Undef, Str(<<"x">>), Arr(<<>>), Arr(<<Str(<<"a">>)>>), Arr(<<Num(1)>>), Arr(<<Str(<<"a">>), Num(1), Str(<<"b">>)>>), Arr(<<Null, Num(2)>>)}>>,
       <<k_text, {Undef, Str(<<"t">>)}>>>>)

RawCodeBlocks ==
    RawOfType({s_code},
      <<<<k_lines, {Undef, Arr(<<>>), Arr(<<Str(<<"l", "1">>), Str(<<"l", "2">>)>>), Arr(<<Num(1)>>), Arr(<<Str(<<"l", "1">>), Num(1)>>), Str(<<"x">>)}>>,
       <<k_code, {Undef, Str(<<"a", "\n", "b">>), Str(<<>>), Num(1)}>>,
       <<k_content, {Undef, Str(<<"c">>)}>>,
       <<k_text, {Undef, Str(<<"t", "\n">>)}>>,
       <<k_language, {Undef, Str(<<"j", "s">>), Str(<<>>), Num(1)}>>,
       <<k_lang, {Undef, Str(<<"p", "y">>), Str(<<>>)}>>,
       <<k_caption, {Undef, Str(<<"c", "a", "p">>), Num(1)}>>>>)

RawTableBlocks ==
    RawOfType({s_table},
      <<<<k_headers, {Undef, Arr(<<>>), Arr(<<Str(<<"A">>), Str(<<"B">>)>>), Arr(<<Num(1)>>), Str(<<"A">>)}>>,
       <<k_rows, {Undef, Arr(<<>>), Arr(<<Arr(<<Str(<<"1">>), Str(<<"2">>)>>)>>), Arr(<<Arr(<<Num(1), Null>>), Str(<<"x">>)>>), Arr(<<Arr(<<>>)>>), Str(<<"x">>)}>>,
       <<k_data, {Undef, Arr(<<Arr(<<Str(<<"d">>)>>)>>)}>>,
       <<k_text, {Undef, Str(<<"|", " ", "A", " ", "|", " ", "B", " ", "|", "\n", "|", "-", "-", "-", "|", "-", "-", "-", "|", "\n", "|", " ", "1", " ", "|", " ", "2", " ", "|", "\n", "|", " ", "3", " ", "|", " ", "4", " ", "|">>), Str(<<"A", "|", "B", "\n", "1", "|", "2">>), Str(<<"|", "A", "|", "\n", "|", "-", "|">>), Str(<<"p", "l", "a", "i", "n">>)}>>,
       <<k_caption, {Undef, Str(<<"c", "a", "p">>)}>>>>)

\* blocks whose type is missing, not a string, differently cased or unknown
RawUntypedBlocks ==
    {Obj(f) : f \in ObjectsFrom(
      <<<<k_type, {Undef, Null, Num(1), Str(<<"P", "a", "r", "a", "g", "r", "a", "p", "h">>), Str(<<"B", "U", "L", "L", "E", "T", "S">>), Str(<<"b", "o", "g", "u", "s">>), Str(<<>>)}>>,
       <<k_text, {Undef, Str(<<"h", "i">>)}>>,
       <<k_items, {Undef, Arr(<<Str(<<"a">>)>>)}>>>>)}

RawNonObjects ==
    {Null, Bool(TRUE), Num(1), Str(s_paragraph), Arr(<<>>),
     Arr(<<Obj((k_type :> Str(s_paragraph)) @@ (k_text :> Str(<<"h", "i">>)))>>)}

RawBlocks ==
    RawTextBlocks \cup RawListBlocks \cup RawCodeBlocks \cup RawTableBlocks
      \cup RawUntypedBlocks \cup RawNonObjects

-----------------------------------------------------------------------------
(* Specification of the normalizer: normalizeContentBlock applied to a raw
   value and then to its own result *)

InitNormalize ==
    /\ pc = "start"
    /\ rawBlock \in RawBlocks
    /\ normBlock = Undef /\ renormBlock = Undef
    /\ slide = Undef /\ outSlides = <<>>
    /\ jsonData = Undef /\ rawText = <<>> /\ parseResult = Undef
    /\ source = NoSource
    /\ RouteIdle /\ ToolsIdle

Normalize ==
    /\ pc = "start"
    /\ normBlock' = normalizeContentBlock(rawBlock)
    /\ pc' = "normalized"
    /\ UNCHANGED <<slide, outSlides, rawBlock, renormBlock, jsonData, rawText, parseResult, source>>
    /\ UNCHANGED <<routeVars, toolVars>>

Renormalize ==
    /\ pc = "normalized"
    /\ normBlock # Null
    /\ renormBlock' = normalizeContentBlock(normBlock)
    /\ pc' = "done"
    /\ UNCHANGED <<slide, outSlides, rawBlock, normBlock, jsonData, rawText, parseResult, source>>
    /\ UNCHANGED <<routeVars, toolVars>>

NextNormalize == Normalize \/ Renormalize

SpecNormalize == InitNormalize /\ [][NextNormalize]_vars

-----------------------------------------------------------------------------
(* Inputs of the decoding specification: documents written out as JSON     *)
(* text, cut at every offset, and texts with the defects parseDSLLenient   *)
(* repairs                                                                 *)

\* the order in which the properties of an object are written
KeyOrder ==
    <<k_slides, k_layout, k_title, k_subtitle, k_notes, k_content, k_leftContent,
      k_rightContent, k_type, k_text, k_emphasis, k_items, k_language, k_lang, k_code,
      k_lines, k_headers, k_rows, k_data, k_caption, k_author>>

RECURSIVE JoinWith(_, _)
JoinWith(parts, sep) ==
    IF parts = <<>> THEN <<>>
    ELSE IF Len(parts) = 1 THEN parts[1]
    ELSE parts[1] \o sep \o JoinWith(Tail(parts), sep)

\* a string literal with its quotes, backslashes and control characters escaped
StringLiteral(s) ==
    <<"\"">>
    \o Flatten([i \in 1..Len(s) |->
                  CASE s[i] = "\"" -> <<"\\", "\"">>
                    [] s[i] = "\\" -> <<"\\", "\\">>
                    [] s[i] = "\n" -> <<"\\", "n">>
                    [] s[i] = "\t" -> <<"\\", "t">>
                    [] s[i] = "\r" -> <<"\\", "r">>
                    [] OTHER -> <<s[i]>>])
    \o <<"\"">>

\* JSON.stringify(x), with gap written after every opening bracket, comma and
\* colon and before every closing bracket
RECURSIVE Stringify(_, _)
Stringify(x, gap) ==
    CASE x.t = "str" -> StringLiteral(x.s)
      [] x.t = "arr" ->
           IF Len(x.a) = 0 THEN <<"[", "]">>
           ELSE <<"[">> \o gap
                \o JoinWith([i \in 1..Len(x.a) |-> Stringify(x.a[i], gap)], <<",">> \o gap)
                \o gap \o <<"]">>
      [] x.t = "obj" ->
           LET keys == SelectSeq(KeyOrder, LAMBDA k : k \in DOMAIN x.o /\ x.o[k] # Undef)
           IN  IF Len(keys) = 0 THEN <<"{", "}">>
               ELSE <<"{">> \o gap
                    \o JoinWith([i \in 1..Len(keys) |->
                                   StringLiteral(keys[i]) \o <<":">> \o gap
                                   \o Stringify(x.o[keys[i]], gap)], <<",">> \o gap)
                    \o gap \o <<"}">>
      [] OTHER -> JSString(x)

\* the text of the document { slides: [...] }
DocText(slides, gap) == Stringify(Obj(k_slides :> Arr(slides)), gap)

\* the length of DocText up to and including the closing brace of each slide
SlideEnds(slides, gap) ==
    LET head == <<"{">> \o gap \o StringLiteral(k_slides) \o <<":">> \o gap \o <<"[">> \o gap
        texts == [i \in 1..Len(slides) |-> Stringify(slides[i], gap)]
    IN  [i \in 1..Len(slides) |->
            Len(head) + Len(JoinWith(SubSeq(texts, 1, i), <<",">> \o gap))]

Gaps == {<<>>, <<"\n", " ">>}

\* the slide of the truncation example: valid under the strict schema
SlideX ==
    MakeSlide(s_title_content, Str(<<"X">>),
              <<Obj((k_type :> Str(s_paragraph)) @@ (k_text :> Str(<<"h", "i">>)))>>)

\* a slide whose strings hold brackets, braces, a quote and a final backslash
SlideY ==
    MakeSlide(s_section, Str(<<"Y", "}">>),
              <<Obj((k_type :> Str(s_bullets))
                    @@ (k_items :> Arr(<<Str(<<"a", "]">>), Str(<<"\"", "{">>),
                                         Str(<<"c", "\\">>)>>)))>>)

\* a slide the strict schema rejects: no layout, a block of an unknown type
\* and a code block given as one string
SlideZ ==
    Obj((k_title :> Str(<<"Z">>))
        @@ (k_content :> Arr(<<Obj(k_type :> Str(<<"b", "o", "g", "u", "s">>)),
                               Obj((k_type :> Str(s_code))
                                   @@ (k_code :> Str(<<"a", "\n", "b">>)))>>)))

\* a slide with a content that is no array and columns in which elements
\* that fail normalization stand before, between and after elements that pass
SlideW ==
    Obj((k_layout :> Str(s_two_column))
        @@ (k_content :> Str(<<"x">>))
        @@ (k_leftContent :> Arr(<<Paragraph(1), Obj(k_type :> Str(<<"b", "o", "g", "u", "s">>)),
                                   Num(3), Bullets(2), Obj(k_text :> Str(<<"t">>))>>))
        @@ (k_rightContent :> Arr(<<Null, Obj((k_type :> Str(s_quote)) @@ (k_text :> Str(<<"q">>))),
                                    Obj(k_type :> Str(s_table))>>)))

\* documents that are cut at every offset
TruncatedDocs == {<<SlideX, SlideY>>, <<SlideY, SlideZ>>, <<SlideZ, SlideX, SlideX>>}

\* presentations written out whole: slides within and beyond the strict
\* limits, of every layout handling, and arrays with elements that are no slides
WholeSlideLists ==
    { <<MakeSlide(s_title_content, Str(<<"T">>), <<Bullets(MAX_LIST_ITEMS), Bullets(MAX_LIST_ITEMS)>>)>>,
      <<MakeSlide(s_title_content, Str(<<"T">>), <<Bullets(2)>>), SlideX>>,
      <<MakeSlide(s_title_content, Str(<<"T">>), <<Bullets(MAX_LIST_ITEMS + 1), Bullets(MAX_LIST_ITEMS)>>)>>,
      <<MakeSlide(s_two_column, Str(<<"T">>), <<Bullets(MAX_LIST_ITEMS + 1)>>)>>,
      <<SlideZ, Num(1), SlideX>>,
      <<SlideW, SlideZ>>,
      <<Num(1), Null, Str(<<"x">>)>>,
      <<Arr(<<>>)>>,
      <<>> }

\* trees that are no presentation
OtherTrees ==
    { Num(5), Null, Str(k_slides), Obj(k_title :> Str(<<"T">>)),
      Obj(k_slides :> Num(5)), Obj(k_slides :> Null) }

\* text wrapped in a markdown fence, with or without the language tag
Fenced(open, text) == open \o <<"\n">> \o text \o <<"\n">> \o s_fence

\* text with a comma written before every closing bracket that follows a value
WithTrailingCommas(text) ==
    Flatten([i \in 1..Len(text) |->
                IF text[i] \in {"}", "]"} /\ i > 1 /\ text[i - 1] \notin {"{", "[", ","}
                THEN <<",", text[i]>> ELSE <<text[i]>>])

\* text with every escaped line feed written as a raw line feed
RECURSIVE WithRawNewlines(_)
WithRawNewlines(text) ==
    IF Len(text) < 2 THEN text
    ELSE IF text[1] = "\\" /\ text[2] = "n"
         THEN <<"\n">> \o WithRawNewlines(SubSeq(text, 3, Len(text)))
    ELSE <<text[1]>> \o WithRawNewlines(Tail(text))

\* text embedded in prose
InProse(text) == <<"S", "e", "e", ":", " ">> \o text \o <<" ", "o", "k", ".">>

\* a one-line document whose last string holds a line feed
SectionDoc ==
    DocText(<<Obj((k_layout :> Str(s_section)) @@ (k_title :> Str(<<"a", "\n", "b">>)))>>, <<>>)

\* a document with a property after slides, which a parse of the whole
\* text keeps and the truncation repair cuts off
TitledDoc == Stringify(Obj((k_slides :> Arr(<<SlideX>>)) @@ (k_title :> Str(<<"t">>))), <<>>)

\* text with a comma written before its last character
WithFinalComma(text) == SubSeq(text, 1, Len(text) - 1) \o <<",", text[Len(text)]>>

DefectiveTexts ==
    { Fenced(s_fence_json, DocText(<<SlideX>>, <<>>)),
      Fenced(s_fence, Stringify(Arr(<<SlideX>>), <<>>)),
      Fenced(s_fence_json, SubSeq(DocText(<<SlideX, SlideY>>, <<>>), 1, 120)),
      WithTrailingCommas(DocText(<<SlideX, SlideZ>>, <<>>)),
      WithRawNewlines(SectionDoc),
      TitledDoc,
      WithFinalComma(TitledDoc),
      InProse(DocText(<<SlideX>>, <<>>)),
      InProse(Stringify(Arr(<<SlideZ>>), <<"\n", " ">>)),
      InProse(SubSeq(DocText(<<SlideX, SlideX>>, <<>>), 1, 100)),
      <<"n", "o", " ", "j", "s", "o", "n">>,
      <<"{", "\"", "a", "\"", ":", " ", "-", "1", ".", "5", "e", "3", "}">>,
      <<"[", "0", "1", "]">>,
      <<>> }

WholeTexts ==
    {DocText(slides, <<>>) : slides \in WholeSlideLists}
    \cup {Stringify(Arr(slides), <<>>) : slides \in WholeSlideLists}
    \cup {Stringify(tree, <<>>) : tree \in OtherTrees}
    \cup DefectiveTexts

-----------------------------------------------------------------------------
(* Specification of decoding: one call of parseDSLLenient *)

InitDecode ==
    /\ pc = "start"
    /\ \/ \E slides \in TruncatedDocs, gap \in Gaps :
            \E cut \in 0..Len(DocText(slides, gap)) :
                /\ rawText = SubSeq(DocText(slides, gap), 1, cut)
                /\ source = [slides |-> slides, ends |-> SlideEnds(slides, gap), cut |-> cut]
       \/ rawText \in WholeTexts /\ source = NoSource
    /\ jsonData = Undef /\ parseResult = Undef
    /\ slide = Undef /\ outSlides = <<>>
    /\ rawBlock = Undef /\ normBlock = Undef /\ renormBlock = Undef
    /\ RouteIdle /\ ToolsIdle

\* jsonData is what the try/catch chain leaves, parseResult what is returned
Decode ==
    /\ pc = "start"
    /\ jsonData' = LenientJsonData(cleanJsonString(rawText))
    /\ parseResult' = Returned(cleanJsonString(rawText), jsonData')
    /\ pc' = "done"
    /\ UNCHANGED <<slide, outSlides, rawBlock, normBlock, renormBlock, rawText, source>>
    /\ UNCHANGED <<routeVars, toolVars>>

NextDecode == Decode

SpecDecode == InitDecode /\ [][NextDecode]_vars

-----------------------------------------------------------------------------
(* The generate route: POST /api/session/[id]/generate                       *)
(* (src/app/api/session/[id]/outline/route.ts, lines 130-338) over the     *)
(* session file of src/lib/session.ts.                                     *)
(*                                                                         *)
(* Of a GenerationSession the model keeps the fields the route reads to    *)
(* decide what to do: mode, stage, processing, error, and for resources,   *)
(* outline and the two presentations whether they are stored and whether   *)
(* they are empty. topic, language, theme and the timestamps are left out. *)
(* Every await of the handler and of the after() callback is a step of its *)
(* own, so that other requests run between them as the event loop allows.  *)

\* a property that is undefined: JSON.stringify leaves it out of the file
Absent == "undefined"
\* the message of a thrown Error
Message == "message"

Stages == {"idle", "collecting", "outlining", "generating", "completed", "error"}
\* null returned by getNextStage
NoStage == "null"

\* number of POST requests that may be running at the same time
MaxRequests == 2
Requests == 1..MaxRequests

\* createSession(id, topic, language, mode, theme)
createSession(mode) ==
    [mode |-> mode, stage |-> "idle", processing |-> FALSE, error |-> Absent,
     resources |-> Absent, outline |-> Absent,
     dslPresentation |-> Absent, imagePresentation |-> Absent]

\* a local that holds no session
NoSession == createSession("none")
\* a local that holds no updates
NoUpdates == [none |-> Absent]

\* updated = { ...session, ...updates }
Merge(s, updates) ==
    [k \in DOMAIN s |-> IF k \in DOMAIN updates THEN updates[k] ELSE s[k]]

\* session.outline && session.outline.length > 0
HasOutline(s) == s.outline = "items"
\* presentation && presentation.slides.length > 0
HasSlides(presentation) == presentation = "slides"

\* toResponse: hasContent
hasContent(s) ==
    IF s.mode = "image" THEN HasSlides(s.imagePresentation) ELSE HasSlides(s.dslPresentation)

getNextStage(s) ==
    CASE s.stage = "idle" -> "collecting"
      [] s.stage = "collecting" -> IF s.resources # Absent THEN "outlining" ELSE NoStage
      [] s.stage = "outlining" -> IF HasOutline(s) THEN "generating" ELSE NoStage
      [] s.stage = "generating" ->
           IF s.mode = "image"
           THEN IF HasSlides(s.imagePresentation) THEN "completed" ELSE NoStage
           ELSE IF HasSlides(s.dslPresentation) THEN "completed" ELSE NoStage
      [] OTHER -> NoStage

\* retryStage of the error branch
RetryStage(s) ==
    IF HasOutline(s) THEN "generating"
    ELSE IF s.resources # Absent THEN "outlining"
    ELSE "collecting"

\* a request slot nobody uses: its handler has responded and the callback it
\* scheduled, if any, has ended
FreeSlot ==
    [pc |-> "free", local |-> NoSession, current |-> NoSession, nextStage |-> NoStage,
     updates |-> NoUpdates, resume |-> "free", executing |-> FALSE]

\* await updateSession(id, updates), to go on at position resume
CallUpdate(slot, updates, resume) ==
    [slot EXCEPT !.pc = "update_read", !.updates = updates, !.resume = resume]

\* lines 176-193 for the handler's local session s: respond with the current
\* state when it is being processed or no stage is due, else mark it
Proceed(s) ==
    IF s.processing THEN FreeSlot
    ELSE IF getNextStage(s) = NoStage THEN FreeSlot
    ELSE CallUpdate([FreeSlot EXCEPT !.local = s, !.nextStage = getNextStage(s)],
                    [processing |-> TRUE, stage |-> getNextStage(s)], "execute")

\* the catch clause of the after() callback
Caught(slot) ==
    CallUpdate([slot EXCEPT !.executing = FALSE],
               [processing |-> FALSE, stage |-> "error", error |-> Message], "free")

\* what collectResources can give: null without a search provider, else the
\* resources, null when the fallback fails too, or an error of the clients
CollectOutcomes == IF searchAvailable THEN {"data", "null", "throw"} ELSE {"null"}
\* generateOutline: an outline, possibly empty, or an error
OutlineOutcomes == {"items", "empty", "throw"}
\* generateDSLPresentation, generateImagePresentation: a presentation,
\* possibly without slides, or an error
PresentationOutcomes == {"slides", "empty", "throw"}

DslIdle ==
    /\ pc = "none" /\ slide = Undef /\ outSlides = <<>>
    /\ rawBlock = Undef /\ normBlock = Undef /\ renormBlock = Undef
    /\ jsonData = Undef /\ rawText = <<>> /\ parseResult = Undef
    /\ source = NoSource

-----------------------------------------------------------------------------
(* Specification of the generate route: requests on one session *)

InitRoute ==
    /\ session \in {createSession(mode) : mode \in {"dsl", "image"}}
    /\ slots = [r \in Requests |-> FreeSlot]
    /\ searchAvailable \in BOOLEAN
    /\ DslIdle /\ ToolsIdle

\* POST arrives and getSession (line 136) reads the file; the handler runs to
\* its response or to its first updateSession
Post(r) ==
    /\ slots[r].pc = "free"
    /\ slots' = [slots EXCEPT ![r] =
                    IF session.stage = "completed" THEN FreeSlot
                    ELSE IF session.stage = "error"
                    THEN CallUpdate([FreeSlot EXCEPT !.local = session],
                                    [stage |-> RetryStage(session), error |-> Absent,
                                     processing |-> FALSE], "reget")
                    ELSE Proceed(session)]
    /\ UNCHANGED <<session, searchAvailable, dslVars, toolVars>>

\* updateSession: const session = await getSession(id)
UpdateRead(r) ==
    /\ slots[r].pc = "update_read"
    /\ slots' = [slots EXCEPT ![r].pc = "update_write", ![r].current = session]
    /\ UNCHANGED <<session, searchAvailable, dslVars, toolVars>>

\* updateSession: await fs.writeFile(path, { ...session, ...updates }); then
\* the caller goes on: the handler schedules executeStage with after() and
\* responds, the error branch goes on to read the session again, the callback
\* ends
UpdateWrite(r) ==
    /\ slots[r].pc = "update_write"
    /\ session' = Merge(slots[r].current, slots[r].updates)
    /\ slots' = [slots EXCEPT ![r] =
                    IF slots[r].resume = "free" THEN FreeSlot
                    ELSE [slots[r] EXCEPT !.pc = slots[r].resume, !.current = NoSession,
                                          !.updates = NoUpdates, !.resume = "free",
                                          !.executing = (slots[r].resume = "execute")]]
    /\ UNCHANGED <<searchAvailable, dslVars, toolVars>>

\* the error branch: resetSession = await getSession(id) (line 165), its
\* stage, error and processing copied into the handler's session
Reget(r) ==
    /\ slots[r].pc = "reget"
    /\ slots' = [slots EXCEPT ![r] =
                    Proceed([slots[r].local EXCEPT !.stage = session.stage,
                                                   !.error = session.error,
                                                   !.processing = session.processing])]
    /\ UNCHANGED <<session, searchAvailable, dslVars, toolVars>>

\* the after() callback: executeStage(id, nextStage, session) up to its
\* updateSession; for generating, up to the end of getSession (line 292)
ExecuteStage(r) ==
    /\ slots[r].pc = "execute"
    /\ \/ /\ slots[r].nextStage = "collecting"
          /\ \E got \in CollectOutcomes :
                slots' = [slots EXCEPT ![r] =
                    IF got = "throw" THEN Caught(slots[r])
                    ELSE CallUpdate(slots[r],
                                    [resources |-> IF got = "null" THEN Absent ELSE got,
                                     processing |-> FALSE], "free")]
       \/ /\ slots[r].nextStage = "outlining"
          /\ \E got \in OutlineOutcomes :
                slots' = [slots EXCEPT ![r] =
                    IF got = "throw" THEN Caught(slots[r])
                    ELSE CallUpdate(slots[r], [outline |-> got, processing |-> FALSE], "free")]
       \/ /\ slots[r].nextStage = "generating"
          /\ slots' = [slots EXCEPT ![r] =
                    IF session.outline = Absent THEN Caught(slots[r])
                    ELSE [slots[r] EXCEPT !.pc = "generate", !.current = session]]
       \/ /\ slots[r].nextStage = "completed"
          /\ slots' = [slots EXCEPT ![r] =
                    CallUpdate(slots[r], [stage |-> "completed", processing |-> FALSE], "free")]
    /\ UNCHANGED <<session, searchAvailable, dslVars, toolVars>>

\* executeStage, case generating: the generator of currentSession.mode runs
Generate(r) ==
    /\ slots[r].pc = "generate"
    /\ \E got \in PresentationOutcomes :
          slots' = [slots EXCEPT ![r] =
              IF got = "throw" THEN Caught(slots[r])
              ELSE IF slots[r].current.mode = "image"
              THEN CallUpdate(slots[r], [imagePresentation |-> got, processing |-> FALSE], "free")
              ELSE CallUpdate(slots[r], [dslPresentation |-> got, processing |-> FALSE], "free")]
    /\ UNCHANGED <<session, searchAvailable, dslVars, toolVars>>

NextRoute ==
    \E r \in Requests :
        Post(r) \/ UpdateRead(r) \/ UpdateWrite(r) \/ Reget(r) \/ ExecuteStage(r) \/ Generate(r)

SpecRoute == InitRoute /\ [][NextRoute]_vars

\* the client keeps polling and the event loop runs every continuation that
\* is ready
SpecRouteFair ==
    /\ InitRoute /\ [][NextRoute]_vars
    /\ \A r \in Requests :
          /\ WF_vars(Post(r)) /\ WF_vars(UpdateRead(r)) /\ WF_vars(UpdateWrite(r))
          /\ WF_vars(Reget(r)) /\ WF_vars(ExecuteStage(r)) /\ WF_vars(Generate(r))

-----------------------------------------------------------------------------
(* The tool-calling loops of AIClient: generateSlidesWithTools              *)
(* (src/lib/ai.ts, lines 188-291) and conductResearch (lines 400-586 of the *)
(* second client file), with safeParseToolArgs and the slide validation of  *)
(* src/lib/dsl-generator.ts that generateSectionDSL passes as onSlideAdded.  *)
(*                                                                         *)
(* The model, the search provider and the page fetcher are the environment: *)
(* each round it answers the request with any assistant message of at most  *)
(* MaxToolCalls tool calls, and every search and fetch with any outcome.    *)
(* Of the conversation the model keeps the tool-role messages; the system,  *)
(* user and assistant messages are written by nobody but the caller and the *)
(* model. One round of a loop is one step: between its awaits a round       *)
(* shares no state with anything else.                                      *)

\* tool calls the model may put into one assistant message
MaxToolCalls == 2
\* tool-role messages the conversation may hold
MaxToolMessages == 2

k_success == <<"s", "u", "c", "c", "e", "s", "s">>
k_query == <<"q", "u", "e", "r", "y">>
k_url == <<"u", "r", "l">>
k_summary == <<"s", "u", "m", "m", "a", "r", "y">>

VALID_CONTENT_BLOCK_TYPES == {s_paragraph, s_bullets, s_numbered, s_code, s_table, s_quote}

validateContentBlocks(blocks) ==
    IF ~IsArray(blocks) THEN TRUE
    ELSE \A i \in 1..Len(blocks.a) :
            LET block == blocks.a[i]
                type == Get(block, k_type)
            IN  \/ ~IsObjectLike(block)
                \/ ~(IsString(type) /\ type.s \notin VALID_CONTENT_BLOCK_TYPES)

validateSlide(args) ==
    /\ validateContentBlocks(Get(args, k_content))
    /\ validateContentBlocks(Get(args, k_leftContent))
    /\ validateContentBlocks(Get(args, k_rightContent))

\* match.replace(/\n/g, '\\n').replace(/\r/g, '\\r').replace(/\t/g, '\\t')
EscapeControls(match) ==
    Flatten([i \in 1..Len(match) |->
                CASE match[i] = "\n" -> <<"\\", "n">>
                  [] match[i] = "\r" -> <<"\\", "r">>
                  [] match[i] = "\t" -> <<"\\", "t">>
                  [] OTHER -> <<match[i]>>])

\* the closing quote of a match of /"([^"\\]*(\\.[^"\\]*)*)"/ whose text goes on
\* at position k, 0 when there is no match: a backslash takes the next
\* character with it unless that is a line terminator
RECURSIVE LiteralEnd(_, _)
LiteralEnd(s, k) ==
    IF k > Len(s) THEN 0
    ELSE IF s[k] = "\"" THEN k
    ELSE IF s[k] = "\\"
    THEN IF k + 1 <= Len(s) /\ s[k + 1] \notin LineTerminators THEN LiteralEnd(s, k + 2) ELSE 0
    ELSE LiteralEnd(s, k + 1)

\* fixed.replace(/"([^"\\]*(\\.[^"\\]*)*)"/g, ...) from position i on; end is
\* the closing quote of the match that starts at i, 0 when none does
RECURSIVE EscapeInLiterals(_, _)
EscapeFrom(s, i, end) ==
    IF end > 0 THEN EscapeControls(SubSeq(s, i, end)) \o EscapeInLiterals(s, end + 1)
    ELSE <<s[i]>> \o EscapeInLiterals(s, i + 1)

EscapeInLiterals(s, i) ==
    IF i > Len(s) THEN <<>>
    ELSE EscapeFrom(s, i, IF s[i] = "\"" THEN LiteralEnd(s, i + 1) ELSE 0)

\* the candidates of safeParseToolArgs for the repaired text fixed;
\* lastBrace is 0-based as in the source
TruncatedCandidates(input, fixed, lastBrace, firstBrace) ==
    <<input, fixed>>
    \o (IF lastBrace > 0 THEN <<Slice(fixed, 0, lastBrace + 1)>> ELSE <<>>)
    \o (IF firstBrace > 0 /\ lastBrace + 1 > firstBrace
        THEN <<SubSeq(fixed, firstBrace, lastBrace + 1)>> ELSE <<>>)

RepairedCandidates(input, fixed) ==
    TruncatedCandidates(input, fixed, LastIndexOf(fixed, "}") - 1, IndexOf(fixed, "{"))

\* the texts safeParseToolArgs hands to JSON.parse, in order: the input, the
\* input without trailing commas and with the control characters of its
\* string literals escaped, that text up to its last closing brace, and the
\* match of /\{[\s\S]*\}/ in it
ToolArgCandidates(input) ==
    RepairedCandidates(input,
        EscapeInLiterals(KeepPositions(input, LAMBDA i : ~IsTrailingComma(input, i)), 1))

\* safeParseToolArgs(input): the value of the first text JSON.parse accepts,
\* ParseError where it throws
safeParseToolArgs(input) == FirstParsed(ToolArgCandidates(input), 1)

-----------------------------------------------------------------------------
(* What the environment can answer *)

\* a slide of valid blocks, one with a block type outside the schema
GoodSlide(title) ==
    Obj((k_layout :> Str(s_title_content)) @@ (k_title :> Str(title))
        @@ (k_content :> Arr(<<Obj((k_type :> Str(s_paragraph)) @@ (k_text :> Str(<<"x">>)))>>)))
BadSlide ==
    Obj((k_layout :> Str(s_two_column)) @@ (k_title :> Str(<<"C">>))
        @@ (k_leftContent :> Arr(<<Obj((k_type :> Str(s_bullets)) @@ (k_items :> Arr(<<>>)))>>))
        @@ (k_rightContent :> Arr(<<Obj((k_type :> Str(<<"i", "m", "a", "g", "e">>)))>>)))

\* { key: "value" }
OneField(key, value) == <<"{">> \o StringLiteral(key) \o <<":">> \o StringLiteral(value) \o <<"}">>

u1 == <<"u", "1">>
u2 == <<"u", "2">>
u3 == <<"u", "3">>

\* toolCall.function.arguments as the model writes them
ArgumentTexts ==
    [slideA |-> Stringify(GoodSlide(<<"A">>), <<>>),
     \* a comma before the closing brace
     slideB |-> WithFinalComma(Stringify(GoodSlide(<<"B">>), <<" ">>)),
     \* text after the closing brace
     slideC |-> Stringify(BadSlide, <<>>) \o <<" ", "o", "k">>,
     \* cut off inside the object
     cut |-> <<"{", "\"", "t", "i", "t", "l", "e", "\"", ":">>,
     null |-> s_null,
     empty |-> <<>>,
     object |-> <<"{", "}">>,
     query |-> OneField(k_query, <<"q">>),
     url1 |-> OneField(k_url, u1),
     url3 |-> OneField(k_url, u3),
     summary |-> OneField(k_summary, <<"s">>)]

\* safeParseToolArgs of every argument text
ParsedArgs ==
    [text \in {ArgumentTexts[n] : n \in DOMAIN ArgumentTexts} |-> safeParseToolArgs(text)]

\* what onSearch and onFetch give when a call is carried out: the results of
\* a search, the content of a page, null for a page, or an exception
NoAnswer == [kind |-> "none", results |-> <<>>, content |-> <<>>]
Found(results) == [kind |-> "results", results |-> results, content |-> <<>>]
Page(content) == [kind |-> "content", results |-> <<>>, content |-> content]
NullAnswer == [kind |-> "null", results |-> <<>>, content |-> <<>>]
Throws == [kind |-> "throw", results |-> <<>>, content |-> <<>>]

\* a tool call of an assistant message, with the answer of the search
\* provider or the page fetcher to it
ToolCall(id, type, name, text, answer) ==
    [id |-> id, type |-> type, function |-> [name |-> name, arguments |-> ArgumentTexts[text]],
     answer |-> answer]

\* a search result and the CollectedResource made of it
SearchResult(url) == [title |-> Str(url), url |-> Str(url), rawContent |-> Undef]

SlideToolCalls(id) ==
    {ToolCall(id, "function", "add_slide", text, NoAnswer) :
        text \in {"slideA", "slideB", "slideC", "cut", "null"}}
    \cup {ToolCall(id, "function", "finish_generation", "empty", NoAnswer),
          ToolCall(id, "function", "get_weather", "object", NoAnswer),
          ToolCall(id, "custom", "add_slide", "slideA", NoAnswer)}

ResearchToolCalls(id) ==
    {ToolCall(id, "function", "search_web", "query", answer) :
        answer \in {Found(<<SearchResult(u1)>>),
                    Found(<<SearchResult(u1), SearchResult(u2)>>), Throws}}
    \cup {ToolCall(id, "function", "fetch_url", "url1", answer) :
            answer \in {Page(<<"p", "a", "g", "e">>), NullAnswer, Throws}}
    \cup {ToolCall(id, "function", "fetch_url", "url3", Page(<<"p", "a", "g", "e">>)),
          ToolCall(id, "function", "search_web", "cut", Throws),
          ToolCall(id, "function", "finish_research", "summary", NoAnswer),
          ToolCall(id, "function", "finish_research", "object", NoAnswer),
          ToolCall(id, "function", "get_weather", "object", NoAnswer),
          ToolCall(id, "custom", "search_web", "query", Throws)}

\* response.choices[0]?.message
AssistantMessage(content, tool_calls) ==
    [present |-> TRUE, content |-> content, tool_calls |-> tool_calls]
\* no choice in the response; also the local before the first response
NoMessage == [present |-> FALSE, content |-> Null, tool_calls |-> <<>>]

ToolLoops == {"generateSlidesWithTools", "conductResearch"}

\* the lists of n tool calls the model can write to the tools of loop fn
RECURSIVE ToolCallLists(_, _)
ToolCallLists(fn, n) ==
    IF n = 0 THEN {<<>>}
    ELSE {Append(calls, toolCall) :
            calls \in ToolCallLists(fn, n - 1),
            toolCall \in (IF fn = "conductResearch" THEN ResearchToolCalls(n)
                          ELSE SlideToolCalls(n))}

\* the responses of the model to a request of loop fn
Responses ==
    [fn \in ToolLoops |->
        {NoMessage, AssistantMessage(Null, <<>>), AssistantMessage(Str(<<"t">>), <<>>)}
        \cup {AssistantMessage(Null, calls) :
                calls \in UNION {ToolCallLists(fn, n) : n \in 1..MaxToolCalls}}]

-----------------------------------------------------------------------------
(* One round of a loop *)

MaxIterations(fn) == IF fn = "conductResearch" THEN 20 ELSE 50

\* { role: 'tool', tool_call_id, content: JSON.stringify(content) }, kept as
\* the object that is written
ToolMessage(toolCall, content) == [role |-> "tool", tool_call_id |-> toolCall.id, content |-> content]

ToolFailure(error) == [success |-> FALSE, error |-> error]
ToolSuccess == [success |-> TRUE]

ParseErrorText == "JSON parse error, please try again with valid JSON"
InvalidBlocksText ==
    "Invalid content block types detected. Only use: paragraph, bullets, numbered, code, table, quote. Please regenerate this slide."

\* the locals of a loop while the tool calls of a message are carried out:
\* stop after break, thrown after an exception that nothing catches
Locals ==
    [slides |-> addedSlides, resources |-> resources, summary |-> summary,
     finished |-> finished, messages |-> conversationMessages,
     stop |-> FALSE, thrown |-> FALSE]

Push(st, toolCall, content) ==
    [st EXCEPT !.messages = Append(st.messages, ToolMessage(toolCall, content))]

\* toolCall.function.arguments || '{}'
ArgumentsOf(toolCall) ==
    IF Len(toolCall.function.arguments) = 0 THEN <<"{", "}">>
    ELSE toolCall.function.arguments

\* the loop without the validation callback: every parsed slide is added
SlideCall_withoutCallback(st, toolCall, args) ==
    IF toolCall.function.name = "add_slide"
    THEN IF args = Null THEN [st EXCEPT !.thrown = TRUE]
         ELSE Push([st EXCEPT !.slides = Append(st.slides, args)], toolCall,
                   [success |-> TRUE, slideIndex |-> Len(st.slides) + 1])
    ELSE IF toolCall.function.name = "finish_generation"
    THEN Push([st EXCEPT !.finished = TRUE, !.stop = TRUE], toolCall, ToolSuccess)
    ELSE st

\* the body of the for loop of generateSlidesWithTools after the arguments
\* were parsed; validateSlide(null) reads a property of null and throws
SlideCall(st, toolCall, args) ==
    IF toolCall.function.name = "add_slide"
    THEN IF args = Null THEN [st EXCEPT !.thrown = TRUE]
         ELSE IF ~validateSlide(args) THEN Push(st, toolCall, ToolFailure(InvalidBlocksText))
         ELSE Push([st EXCEPT !.slides = Append(st.slides, args)], toolCall,
                   [success |-> TRUE, slideIndex |-> Len(st.slides) + 1])
    ELSE IF toolCall.function.name = "finish_generation"
    THEN Push([st EXCEPT !.finished = TRUE, !.stop = TRUE], toolCall, ToolSuccess)
    ELSE st

\* resources after the results of a search were added, each url once
RECURSIVE AddResults(_, _)
AddResults(list, results) ==
    IF results = <<>> THEN list
    ELSE AddResults(IF \E i \in 1..Len(list) : list[i].url = results[1].url THEN list
                    ELSE Append(list, results[1]),
                    Tail(results))

\* resources after content was fetched from url
AddContent(list, url, content) ==
    IF \E i \in 1..Len(list) : list[i].url = url
    THEN LET at == CHOOSE i \in 1..Len(list) :
                      list[i].url = url /\ \A j \in 1..(i - 1) : list[j].url # url
         IN  [list EXCEPT ![at].rawContent = Str(content)]
    ELSE Append(list, [title |-> url, url |-> url, rawContent |-> Str(content)])

\* the body of the for loop of conductResearch after the arguments were
\* parsed; args.query of null throws, and so does summary.length when the
\* arguments hold no summary
ResearchCall(st, toolCall, args) ==
    IF toolCall.function.name \in {"search_web", "fetch_url", "finish_research"} /\ args = Null
    THEN [st EXCEPT !.thrown = TRUE]
    ELSE IF toolCall.function.name = "search_web"
    THEN IF toolCall.answer.kind = "throw"
         THEN Push(st, toolCall, ToolFailure("Search failed, please try a different query"))
         ELSE Push([st EXCEPT !.resources = AddResults(st.resources, toolCall.answer.results)],
                   toolCall, [success |-> TRUE, results |-> toolCall.answer.results])
    ELSE IF toolCall.function.name = "fetch_url"
    THEN IF toolCall.answer.kind = "throw"
         THEN Push(st, toolCall, ToolFailure("Failed to fetch URL"))
         ELSE IF toolCall.answer.kind = "null"
         THEN Push(st, toolCall, ToolFailure("Failed to fetch URL content"))
         ELSE Push([st EXCEPT !.resources = AddContent(st.resources, Get(args, k_url),
                                                       toolCall.answer.content)],
                   toolCall, [success |-> TRUE, content |-> toolCall.answer.content])
    ELSE IF toolCall.function.name = "finish_research"
    THEN IF Get(args, k_summary) \in {Undef, Null}
         THEN [st EXCEPT !.summary = Get(args, k_summary), !.thrown = TRUE]
         ELSE Push([st EXCEPT !.summary = Get(args, k_summary), !.finished = TRUE,
                              !.stop = TRUE], toolCall, ToolSuccess)
    ELSE st

\* one pass of for (const toolCall of message.tool_calls); args is what
\* safeParseToolArgs gave
FunctionCall(fn, st, toolCall, args) ==
    IF args = ParseError THEN Push(st, toolCall, ToolFailure(ParseErrorText))
    ELSE IF fn = "conductResearch" THEN ResearchCall(st, toolCall, args)
    ELSE SlideCall(st, toolCall, args)

HandleToolCall(fn, st, toolCall) ==
    IF toolCall.type # "function" THEN st
    ELSE FunctionCall(fn, st, toolCall, ParsedArgs[ArgumentsOf(toolCall)])

RECURSIVE HandleToolCalls(_, _, _, _)
HandleToolCalls(fn, st, tool_calls, i) ==
    IF i > Len(tool_calls) \/ st.stop \/ st.thrown THEN st
    ELSE HandleToolCalls(fn, HandleToolCall(fn, st, tool_calls[i]), tool_calls, i + 1)

\* the locals after the body of the while loop ran on the response
AfterResponse(fn, response) ==
    IF ~response.present THEN Locals
    ELSE IF Len(response.tool_calls) > 0
    THEN HandleToolCalls(fn, Locals, response.tool_calls, 1)
    ELSE [Locals EXCEPT !.finished = TRUE,
                        !.summary = IF fn = "conductResearch" /\ Truthy(response.content)
                                    THEN response.content ELSE Locals.summary]

\* how a loop ended
NotReturned == [how |-> "running", value |-> <<>>]
Return(value) == [how |-> "return", value |-> value]
Thrown == [how |-> "throw", value |-> <<>>]

\* the loop was left by if (!message) break
Broken == iterations > 0 /\ ~message.present
\* the while loop is over
LoopOver == finished \/ iterations >= MaxIterations(toolFn) \/ Broken

\* the default summary of conductResearch
DefaultSummary(n) ==
    Str(<<"U+6536", "U+96C6", "U+4E86", " ">> \o NatToStr(n)
        \o <<" ", "U+6761", "U+76F8", "U+5173", "U+8D44", "U+6599", "U+3002">>)

-----------------------------------------------------------------------------
(* Specification of the tool-calling loops *)

InitTools ==
    /\ toolFn \in ToolLoops
    /\ iterations = 0 /\ finished = FALSE
    /\ addedSlides = <<>> /\ resources = <<>> /\ summary = Str(<<>>)
    /\ message = NoMessage /\ conversationMessages = <<>>
    /\ requests = 0 /\ returned = NotReturned
    /\ DslIdle /\ RouteIdle

\* the end of a pass: the locals as the pass left them
Pass(response, st) ==
    /\ Len(st.messages) <= MaxToolMessages
    /\ iterations' = iterations + 1
    /\ requests' = requests + 1
    /\ message' = response
    /\ addedSlides' = st.slides
    /\ resources' = st.resources
    /\ summary' = st.summary
    /\ conversationMessages' = st.messages
    /\ finished' = st.finished
    /\ returned' = IF st.thrown THEN Thrown ELSE NotReturned

\* one pass of while (!finished && iterations < maxIterations): the request,
\* the response of the model, and its tool calls carried out
Round(fn) ==
    /\ returned.how = "running" /\ ~LoopOver
    /\ \E response \in Responses[fn] : Pass(response, AfterResponse(fn, response))
    /\ UNCHANGED <<toolFn, dslVars, routeVars>>

GenerateSlidesRound ==
    /\ toolFn = "generateSlidesWithTools"
    /\ Round("generateSlidesWithTools")

ResearchRound ==
    /\ toolFn = "conductResearch"
    /\ Round("conductResearch")

\* return slides
ReturnSlides ==
    /\ toolFn = "generateSlidesWithTools" /\ returned.how = "running" /\ LoopOver
    /\ returned' = Return(addedSlides)
    /\ UNCHANGED <<toolFn, iterations, finished, addedSlides, resources, summary, message,
                   conversationMessages, requests, dslVars, routeVars>>

\* the default summary, and return { resources, summary }
ReturnResearch ==
    /\ toolFn = "conductResearch" /\ returned.how = "running" /\ LoopOver
    /\ summary' = IF ~Truthy(summary) /\ Len(resources) > 0
                  THEN DefaultSummary(Len(resources)) ELSE summary
    /\ returned' = Return([resources |-> resources, summary |-> summary'])
    /\ UNCHANGED <<toolFn, iterations, finished, addedSlides, resources, message,
                   conversationMessages, requests, dslVars, routeVars>>

NextTools == GenerateSlidesRound \/ ResearchRound \/ ReturnSlides \/ ReturnResearch

SpecTools == InitTools /\ [][NextTools]_vars

-----------------------------------------------------------------------------
(* Properties of pagination *)

\* content array of a slide, empty when the slide has none
ContentOf(s) == IF IsArray(Get(s, k_content)) THEN Get(s, k_content).a ELSE <<>>

\* the leaf content of a block: paragraph and quote texts, list items, code
\* lines, table rows
Leaves(block) ==
    CASE TypeIs(block, s_paragraph) \/ TypeIs(block, s_quote) -> <<Get(block, k_text)>>
      [] TypeIs(block, s_bullets) \/ TypeIs(block, s_numbered) -> Get(block, k_items).a
      [] TypeIs(block, s_code) -> Get(block, k_lines).a
      [] TypeIs(block, s_table) -> Get(block, k_rows).a
      [] OTHER -> <<>>

LeafSeq(blocks) == Flatten([i \in 1..Len(blocks) |-> Leaves(blocks[i])])

OutContents == [i \in 1..Len(outSlides) |-> ContentOf(outSlides[i])]

\* whether Phase A splits at least one block of the input slide
PhaseASplits == Len(ExpandBlocks(ContentOf(slide))) > Len(ContentOf(slide))

\* whether the slide is one that splitSingleSlide repacks
IsRepacked == LayoutIs(slide, s_title_content) /\ Len(ContentOf(slide)) > 0

\* whether the merge-back step of splitByContentSize fires on the input slide
MergeBackFires ==
    LET blocks == ExpandBlocks(ContentOf(slide))
        pages == PackLoop(blocks, <<>>, <<>>, 0)
    IN  /\ IsRepacked
        /\ Len(blocks) > 1
        /\ Len(pages) > 1
        /\ PageHeight(pages[Len(pages)]) < MIN_CONTENT_HEIGHT

\* C1: no data loss under splitting. The leaves of the output slides,
\* concatenated in slide order, are exactly the leaves of the input slide in
\* their original order; since the output leaf sequence is the concatenation
\* of the per-slide sequences, every input leaf then lies in exactly one
\* output slide.
C1_NoDataLoss ==
    pc = "done" => LeafSeq(Flatten(OutContents)) = LeafSeq(ContentOf(slide))

\* C1 witness: a slide one of whose blocks Phase A split and whose content
\* ended up on several output slides
C1_Witness == pc = "done" /\ PhaseASplits /\ Len(outSlides) > 1

\* C2 as stated: every output slide is within the page budget unless it
\* holds exactly one block, also when the merge-back step fired
C2_BoundIncludingMergeBack ==
    (pc = "done" /\ IsRepacked) =>
        \A i \in 1..Len(outSlides) :
            Len(OutContents[i]) = 1 \/ PageHeight(OutContents[i]) <= MAX_CONTENT_HEIGHT

\* C2 amended: every output slide of a repacked (title-content) slide is
\* within the page budget unless it holds exactly one block or it is the last
\* output slide and the merge-back step fired; a page that received the merged
\* trailing page always exceeds the budget.
C2_BoundExceptMergedPage ==
    (pc = "done" /\ IsRepacked) =>
        /\ \A i \in 1..Len(outSlides) :
              \/ Len(OutContents[i]) = 1
              \/ PageHeight(OutContents[i]) <= MAX_CONTENT_HEIGHT
              \/ (i = Len(outSlides) /\ MergeBackFires)
        /\ MergeBackFires =>
              PageHeight(OutContents[Len(outSlides)]) > MAX_CONTENT_HEIGHT

\* C2 witness: several output slides, one of them with several blocks, and
\* merge-back fired
C2_Witness ==
    /\ pc = "done" /\ MergeBackFires /\ Len(outSlides) > 1
    /\ \E i \in 1..Len(outSlides) - 1 : Len(OutContents[i]) > 1

\* C3: no empty output slides. For a slide with a non-empty content array,
\* paginate returns at least one slide and none with an empty content array.
C3_NoEmptySlides ==
    (pc = "done" /\ Len(ContentOf(slide)) > 0) =>
        /\ Len(outSlides) >= 1
        /\ \A i \in 1..Len(outSlides) : Len(OutContents[i]) >= 1

\* C3 witness: a page-sized first block followed by more content, split over
\* several slides
C3_Witness ==
    /\ pc = "done" /\ Len(outSlides) > 1
    /\ getBlockHeight(ContentOf(slide)[1]) > MAX_CONTENT_HEIGHT

\* the text " (i/N)" written out for one-digit i and N
ExpectedSuffix(i, n) == <<" ", "(", Digit(i), "/", Digit(n), ")">>

\* C4: title suffixing. With N slides returned, N > 1, slide i is titled
\* "<original title> (i/N)" (the original title taken as empty when absent);
\* with N = 1 the title is the input's, untouched.
C4_TitleSuffix ==
    pc = "done" =>
        LET n == Len(outSlides) IN
        /\ n > 1 =>
             \A i \in 1..n :
                Get(outSlides[i], k_title)
                  = Str(OrEmpty(Get(slide, k_title)) \o ExpectedSuffix(i, n))
        /\ n = 1 => Get(outSlides[1], k_title) = Get(slide, k_title)

\* C4 witness: merge-back fired and more than one slide is left, so N is the
\* count after merging
C4_Witness == pc = "done" /\ MergeBackFires /\ Len(outSlides) > 1

\* the per-kind item-count limits of DSL_LIMITS
WithinCountLimits(block) ==
    /\ (TypeIs(block, s_bullets) \/ TypeIs(block, s_numbered))
          => Len(Get(block, k_items).a) <= MAX_LIST_ITEMS
    /\ TypeIs(block, s_code) => Len(Get(block, k_lines).a) <= MAX_CODE_LINES
    /\ TypeIs(block, s_table) => Len(Get(block, k_rows).a) <= MAX_TABLE_ROWS

\* the text-length and column limits of DSL_LIMITS
WithinSizeLimits(block) ==
    /\ TypeIs(block, s_paragraph) => Len(Get(block, k_text).s) <= MAX_PARAGRAPH_LENGTH
    /\ TypeIs(block, s_quote) => Len(Get(block, k_text).s) <= MAX_QUOTE_LENGTH
    /\ TypeIs(block, s_table) => Len(Get(block, k_headers).a) <= MAX_TABLE_COLUMNS
    /\ (TypeIs(block, s_bullets) \/ TypeIs(block, s_numbered)) =>
          \A j \in 1..Len(Get(block, k_items).a) :
              Len(Get(block, k_items).a[j].s) <= MAX_LIST_ITEM_LENGTH

\* C10 as stated: every block of every returned slide respects all per-kind
\* content limits of DSL_LIMITS
C10_AllLimitsEnforced ==
    pc = "done" =>
        \A i \in 1..Len(outSlides) : \A j \in 1..Len(OutContents[i]) :
            WithinCountLimits(OutContents[i][j]) /\ WithinSizeLimits(OutContents[i][j])

\* C10 amended: for a title-content slide, every block of every returned
\* slide respects the item-count limits (list items, code lines, table rows);
\* text lengths and column counts are not limited.
C10_CountLimitsEnforced ==
    (pc = "done" /\ LayoutIs(slide, s_title_content)) =>
        \A i \in 1..Len(outSlides) : \A j \in 1..Len(OutContents[i]) :
            WithinCountLimits(OutContents[i][j])

\* C10 witness: an input block beyond its count limit was split
C10_Witness == pc = "done" /\ LayoutIs(slide, s_title_content) /\ PhaseASplits

\* the item-count ceiling of a block's kind, 0 for the kinds that have none
Ceiling(block) ==
    CASE TypeIs(block, s_bullets) \/ TypeIs(block, s_numbered) -> MAX_LIST_ITEMS
      [] TypeIs(block, s_code) -> MAX_CODE_LINES
      [] TypeIs(block, s_table) -> MAX_TABLE_ROWS
      [] OTHER -> 0

\* ceil(N / ceiling) for a block beyond its ceiling, 1 for every other block
ExpectedParts(block) ==
    IF Ceiling(block) > 0 /\ Len(Leaves(block)) > Ceiling(block)
    THEN (Len(Leaves(block)) + Ceiling(block) - 1) \div Ceiling(block)
    ELSE 1

\* number of output blocks expected for the first j input blocks
RECURSIVE PartsBefore(_, _)
PartsBefore(blocks, j) ==
    IF j = 0 THEN 0 ELSE PartsBefore(blocks, j - 1) + ExpectedParts(blocks[j])

\* C11: Phase A split shape. The blocks of the returned slides, in order, are
\* the input blocks each replaced by its parts: a paragraph, a quote or a
\* block with N <= ceiling items by itself, unchanged; a code, bullets,
\* numbered or table block with N > ceiling items by exactly ceil(N/ceiling)
\* blocks of the same kind, each with 1..ceiling items, whose items
\* concatenated in order are the original items.
C11_SplitShape ==
    (pc = "done" /\ IsRepacked) =>
        LET blocks == ContentOf(slide)
            out == Flatten(OutContents)
        IN  /\ Len(out) = PartsBefore(blocks, Len(blocks))
            /\ \A j \in 1..Len(blocks) :
                  LET parts == SubSeq(out, PartsBefore(blocks, j - 1) + 1, PartsBefore(blocks, j))
                  IN  IF ExpectedParts(blocks[j]) = 1 THEN parts = <<blocks[j]>>
                      ELSE /\ \A p \in 1..Len(parts) :
                                 /\ Get(parts[p], k_type) = Get(blocks[j], k_type)
                                 /\ Len(Leaves(parts[p])) \in 1..Ceiling(blocks[j])
                           /\ LeafSeq(parts) = Leaves(blocks[j])

\* C11 witness: a list of 2 * ceiling + 1 items came out as three lists of
\* ceiling, ceiling and 1 items next to a paragraph beyond its length limit
\* that came out whole
C11_Witness ==
    /\ pc = "done" /\ IsRepacked
    /\ ContentOf(slide) = <<Numbered(2 * MAX_LIST_ITEMS + 1), Paragraph(MAX_PARAGRAPH_LENGTH + 1)>>
    /\ LET out == Flatten(OutContents)
       IN  /\ Len(out) = 4
           /\ Len(Leaves(out[1])) = MAX_LIST_ITEMS /\ Len(Leaves(out[2])) = MAX_LIST_ITEMS
           /\ Len(Leaves(out[3])) = 1
           /\ out[4] = Paragraph(MAX_PARAGRAPH_LENGTH + 1)

\* C12: pass-through layouts. For a slide whose layout is title-only,
\* section, two-column or comparison, splitSingleSlide returns the one-element
\* list holding that slide, all its properties unchanged, whatever its blocks.
C12_PassThrough ==
    (pc = "done" /\ \E l \in PassThroughLayouts : LayoutIs(slide, l)) => outSlides = <<slide>>

\* C12 witness: a section slide with more than a page of content, and a
\* comparison slide whose columns are beyond the limits, returned as they are
C12_Witness ==
    /\ pc = "done" /\ outSlides = <<slide>>
    /\ \/ /\ LayoutIs(slide, s_section)
          /\ Len(ContentOf(slide)) = MaxPassBlocks
          /\ PageHeight(ContentOf(slide)) > MAX_CONTENT_HEIGHT
          /\ Len(ExpandBlocks(ContentOf(slide))) > Len(ContentOf(slide))
       \/ /\ LayoutIs(slide, s_comparison)
          /\ IsArray(Get(slide, k_leftContent)) /\ IsArray(Get(slide, k_rightContent))
          /\ Len(Get(slide, k_leftContent).a) > MAX_CONTENT_BLOCKS_PER_COLUMN
          /\ Len(Get(slide, k_rightContent).a) = 2

-----------------------------------------------------------------------------
(* Properties of the normalizer *)

SixKinds == {s_paragraph, s_bullets, s_numbered, s_code, s_table, s_quote}

IsListBlock(b) == b # Null /\ (TypeIs(b, s_bullets) \/ TypeIs(b, s_numbered))

\* C7 as stated: normalizing a block that normalize returned gives the same
\* block again (and never null)
C7_Idempotent == pc = "done" => renormBlock = normBlock

\* C8 as stated: a bullets or numbered block is returned only when items is
\* an array with at least one string element, and its items are then exactly
\* the string elements of the input, in order, at least one
C8_ListNonEmpty ==
    (pc # "start" /\ IsListBlock(normBlock)) =>
        /\ IsArray(Get(rawBlock, k_items))
        /\ \E i \in 1..Len(Get(rawBlock, k_items).a) : IsString(Get(rawBlock, k_items).a[i])
        /\ Len(Get(normBlock, k_items).a) >= 1
        /\ Get(normBlock, k_items).a = SelectSeq(Get(rawBlock, k_items).a, IsString)

\* C9: six-kind closure. normalize returns null or a block whose type is one
\* of the six kinds; a missing, non-string or unrecognized type (a
\* differently cased one included) always yields null.
C9_SixKindClosure ==
    pc # "start" =>
        /\ normBlock = Null \/ \E k \in SixKinds : Get(normBlock, k_type) = Str(k)
        /\ (~ \E k \in SixKinds : Get(rawBlock, k_type) = Str(k)) => normBlock = Null

\* C9 witness: a block typed "Paragraph" with a text was normalized to null
C9_Witness ==
    /\ pc # "start"
    /\ Get(rawBlock, k_type) = Str(<<"P", "a", "r", "a", "g", "r", "a", "p", "h">>)
    /\ IsString(Get(rawBlock, k_text))
    /\ normBlock = Null

\* the first sequence of seqs that is not empty, the empty one when all are
FirstNonEmpty(seqs) ==
    IF \E i \in 1..Len(seqs) : Len(seqs[i]) > 0
    THEN seqs[CHOOSE i \in 1..Len(seqs) : Len(seqs[i]) > 0 /\ \A j \in 1..(i - 1) : Len(seqs[j]) = 0]
    ELSE <<>>

\* the lines each of the four sources of a code block yields, in priority
\* order: the strings of the lines array, then the code, content and text
\* strings split on newline
CodeLineSources(b) ==
    << IF IsArray(Get(b, k_lines)) THEN SelectSeq(Get(b, k_lines).a, IsString) ELSE <<>>,
       IF IsString(Get(b, k_code)) THEN SplitLines(Get(b, k_code).s) ELSE <<>>,
       IF IsString(Get(b, k_content)) THEN SplitLines(Get(b, k_content).s) ELSE <<>>,
       IF IsString(Get(b, k_text)) THEN SplitLines(Get(b, k_text).s) ELSE <<>> >>

\* language, else lang, else the literal "text"
CodeLanguage(b) ==
    IF IsString(Get(b, k_language)) /\ Len(Get(b, k_language).s) > 0 THEN Get(b, k_language)
    ELSE IF IsString(Get(b, k_lang)) /\ Len(Get(b, k_lang).s) > 0 THEN Get(b, k_lang)
    ELSE Str(s_text)

\* C15 as stated: the lines of a normalized code block are those of the
\* first of the four sources that yields at least one line, null is returned
\* only when no source yields a line, and language is language, else lang,
\* else "text"
C15_CodeFallbackChain ==
    (pc # "start" /\ IsPlainObject(rawBlock) /\ TypeIs(rawBlock, s_code)) =>
        IF FirstNonEmpty(CodeLineSources(rawBlock)) = <<>> THEN normBlock = Null
        ELSE /\ normBlock # Null
             /\ Get(normBlock, k_lines) = Arr(FirstNonEmpty(CodeLineSources(rawBlock)))
             /\ Get(normBlock, k_language) = CodeLanguage(rawBlock)

\* the table the fallback chain describes, as a record of headers and rows
\* (either may be empty): headers from the headers array; rows from rows,
\* else from data; else both from the markdown table in text; positional
\* headers when there are rows and no headers
TableByFallbacks(b) ==
    LET headers0 ==
            IF IsArray(Get(b, k_headers)) THEN SelectSeq(Get(b, k_headers).a, IsString) ELSE <<>>
        rows0 ==
            FirstNonEmpty(<< IF IsArray(Get(b, k_rows)) THEN RowsOf(Get(b, k_rows).a) ELSE <<>>,
                             IF IsArray(Get(b, k_data)) THEN RowsOf(Get(b, k_data).a) ELSE <<>> >>)
        parsed ==
            IF (Len(headers0) = 0 \/ Len(rows0) = 0) /\ IsString(Get(b, k_text))
            THEN parseMarkdownTable(Get(b, k_text).s) ELSE Null
    IN  IF parsed # Null
        THEN [headers |-> [i \in 1..Len(parsed.headers) |-> Str(parsed.headers[i])],
              rows |-> [i \in 1..Len(parsed.rows) |->
                          Arr([j \in 1..Len(parsed.rows[i]) |-> Str(parsed.rows[i][j])])]]
        ELSE IF Len(headers0) = 0 /\ Len(rows0) > 0
        THEN [headers |-> [i \in 1..Len(rows0[1].a) |-> PositionalHeader(i)], rows |-> rows0]
        ELSE [headers |-> headers0, rows |-> rows0]

\* C16 as stated: a normalized table has the headers and rows of the
\* fallback chain (headers and rows directly, else data as the rows source,
\* else the markdown table in text, then positional headers as many as the
\* first row is wide), and null is returned only when after all fallbacks
\* headers or rows is still empty
C16_TableFallbackChain ==
    (pc # "start" /\ IsPlainObject(rawBlock) /\ TypeIs(rawBlock, s_table)) =>
        LET t == TableByFallbacks(rawBlock)
        IN  IF Len(t.headers) = 0 \/ Len(t.rows) = 0 THEN normBlock = Null
            ELSE /\ normBlock # Null
                 /\ Get(normBlock, k_headers) = Arr(t.headers)
                 /\ Get(normBlock, k_rows) = Arr(t.rows)

\* C20 as stated: a content block is accepted by the strict path (the
\* contentBlockSchema of presentationDSLSchema) exactly when normalize
\* accepts it
C20_SameBlockValidity ==
    pc # "start" => (contentBlockSchema(rawBlock) <=> normBlock # Null)

\* C20 amended: every content block the strict path accepts is accepted by
\* normalize; the converse does not hold, normalize also accepts blocks in
\* the fallback formats and beyond the limits of the schema.
C20_StrictImpliesLenient ==
    pc # "start" => (contentBlockSchema(rawBlock) => normBlock # Null)

\* C20 witness: blocks of the code, table and quote kinds that the schema
\* accepts were normalized
C20_Witness ==
    /\ pc # "start"
    /\ contentBlockSchema(rawBlock)
    /\ TypeIs(rawBlock, s_code) \/ TypeIs(rawBlock, s_table) \/ TypeIs(rawBlock, s_quote)
    /\ normBlock # Null

-----------------------------------------------------------------------------
(* Properties of decoding *)

\* number of slides of the written document that lie whole within rawText
CompleteSlides == Cardinality({i \in 1..Len(source.ends) : source.ends[i] <= source.cut})

\* slidesArray of parseDSLLenient for a jsonData that passed the shape checks
SlidesArrayOf(data) == IF IsArray(data) THEN data.a ELSE Get(data, k_slides).a

\* the slides decoding produced before any pagination: strictResult.data.slides
\* when the strict validation passed, validSlides otherwise
DecodedSlides ==
    LET slidesArray == SlidesArrayOf(jsonData)
    IN  IF presentationDSLSchema(slidesArray)
        THEN Get(ParsedPresentation(slidesArray), k_slides).a
        ELSE LenientSlides(slidesArray)

\* C5 as stated: whenever parseDSLLenient succeeds, on the strict as on the
\* lenient path, the returned slide list is the decoded slides with each
\* slide replaced by splitSingleSlide(slide), flattened in order
C5_DocumentAssembly ==
    (pc = "done" /\ parseResult.success) =>
        Get(parseResult.data, k_slides).a
          = Flatten([i \in 1..Len(DecodedSlides) |-> splitSingleSlide(DecodedSlides[i])])

LenientPath ==
    /\ pc = "done" /\ jsonData # ParseError
    /\ IsArray(SlidesValue(jsonData))
    /\ Len(SlidesArrayOf(jsonData)) > 0
    /\ ~presentationDSLSchema(SlidesArrayOf(jsonData))

\* the layout the lenient loop gives an element: its own when it is one of
\* the five known values, title-content otherwise
CoercedLayout(element) ==
    IF Get(element, k_layout) \in {Str(l) : l \in Layouts}
    THEN Get(element, k_layout) ELSE Str(s_title_content)

\* the slides before pagination are one per element of elements, in order,
\* each with the coerced layout of its element, and the returned slides are
\* their pagination
OneSlidePerElement(elements) ==
    /\ parseResult.success
    /\ Len(DecodedSlides) = Len(elements)
    /\ \A i \in 1..Len(elements) : Get(DecodedSlides[i], k_layout) = CoercedLayout(elements[i])
    /\ Get(parseResult.data, k_slides).a
         = Flatten([i \in 1..Len(DecodedSlides) |-> splitSingleSlide(DecodedSlides[i])])

IsFilteredImage(out, raw) ==
    LET kept == {j \in 1..Len(raw) : normalizeContentBlock(raw[j]) # Null}
    IN  /\ Len(out) = Cardinality(kept)
        /\ \A j \in kept :
              out[Cardinality({m \in kept : m <= j})] = normalizeContentBlock(raw[j])

ShapeErrors == {ErrUnrecognized, ErrSlidesNotArray}

\* C17: shape errors. Once a tree is parsed, parseDSLLenient goes on only
\* for a bare array or an object with a slides array. Every other value
\* yields a shape error: "slides must be an array" for an object that has a
\* slides property, "unrecognized JSON structure" for the rest, primitives
\* and null included. An empty slides array or bare array yields the
\* empty-presentation error, and an array with elements yields neither.
C17_ShapeErrors ==
    (pc = "done" /\ jsonData # ParseError) =>
        IF IsArray(jsonData) \/ (IsPlainObject(jsonData) /\ IsArray(Get(jsonData, k_slides)))
        THEN IF Len(SlidesArrayOf(jsonData)) = 0
             THEN parseResult = Failure(ErrEmptySlides)
             ELSE parseResult.success \/ parseResult.error \notin ShapeErrors \cup {ErrEmptySlides}
        ELSE IF IsPlainObject(jsonData) /\ k_slides \in DOMAIN jsonData.o
             THEN parseResult = Failure(ErrSlidesNotArray)
             ELSE parseResult = Failure(ErrUnrecognized)

\* C17 witness: the text {"slides":5} parsed and was rejected for its shape
C17_Witness ==
    /\ pc = "done"
    /\ jsonData = Obj(k_slides :> Num(5))
    /\ parseResult = Failure(ErrSlidesNotArray)

\* the error values of parseDSLLenient
DecodeErrors == {ErrJsonParse, ErrSlidesNotArray, ErrUnrecognized, ErrEmptySlides, ErrNoValidSlides}

\* C18: decode is total and result-valued. Whatever the input text, what
\* parseDSLLenient returns is either success with a presentation of at
\* least one slide, each an object with one of the five layouts, or a
\* failure with one of the error values and no data; never success with an
\* empty slide list. (Every step of the call is defined on every input: a
\* throw of JSON.parse is the value ParseError, which the chain catches.)
C18_TotalResult ==
    pc = "done" =>
        IF parseResult.success
        THEN /\ IsPlainObject(parseResult.data)
             /\ IsArray(Get(parseResult.data, k_slides))
             /\ Len(Get(parseResult.data, k_slides).a) >= 1
             /\ \A i \in 1..Len(Get(parseResult.data, k_slides).a) :
                   LET s == Get(parseResult.data, k_slides).a[i]
                   IN  IsPlainObject(s) /\ IsString(Get(s, k_layout))
                       /\ Get(s, k_layout).s \in Layouts
        ELSE parseResult.error \in DecodeErrors /\ parseResult.data = Undef

\* C18 witness: an array none of whose elements is an object was decoded to
\* the no-valid-slides error, not to an empty presentation
C18_Witness ==
    /\ pc = "done"
    /\ IsArray(jsonData) /\ Len(jsonData.a) = 3
    /\ \A i \in 1..3 : ~IsObjectLike(jsonData.a[i])
    /\ parseResult = Failure(ErrNoValidSlides)

\* the texts of the repair chain for the fence-stripped text, in the order
\* of the claim: the text itself, the text with trailing commas and raw
\* newlines repaired, the text with the truncation repaired and, when the
\* text holds a bracket-delimited substring, the largest such substring with
\* the truncation repaired
RepairAttempts(cleaned) ==
    <<cleaned, tryFixJson(cleaned), tryFixTruncatedJson(cleaned)>>
    \o (IF ExtractJson(cleaned).found
        THEN <<tryFixTruncatedJson(ExtractJson(cleaned).text)>> ELSE <<>>)

\* C19: repair chain ordering. jsonData is the parse of the first attempt,
\* in the fixed order of RepairAttempts on the fence-stripped text, whose
\* parse succeeds; when every attempt fails the call returns the parse
\* failure with the error message of the direct parse of the fence-stripped
\* text.
C19_RepairOrder ==
    pc = "done" =>
        LET cleaned == cleanJsonString(rawText)
            attempts == RepairAttempts(cleaned)
            parsing == {k \in 1..Len(attempts) : JSONParse(attempts[k]) # ParseError}
        IN  IF parsing = {}
            THEN /\ jsonData = ParseError
                 /\ parseResult = [success |-> FALSE, error |-> ErrJsonParse,
                                   details |-> ParseMessage(cleaned), data |-> Undef]
            ELSE jsonData = JSONParse(attempts[CHOOSE k \in parsing : \A j \in parsing : k <= j])

\* C19 witness: a text with trailing commas and a property after slides, for
\* which the comma repair and the truncation repair both parse and differ,
\* was decoded to the tree of the comma repair
C19_Witness ==
    /\ pc = "done"
    /\ JSONParse(cleanJsonString(rawText)) = ParseError
    /\ JSONParse(tryFixTruncatedJson(cleanJsonString(rawText))) = Obj(k_slides :> Arr(<<SlideX>>))
    /\ jsonData = Obj((k_slides :> Arr(<<SlideX>>)) @@ (k_title :> Str(<<"t">>)))

-----------------------------------------------------------------------------
(* Properties of the generate route *)

\* the requests whose executeStage is in flight: scheduled with after() and
\* neither returned nor thrown
InFlight == {r \in Requests : slots[r].executing}

\* C21: the processing flag prevents duplicate processing. Under every
\* interleaving of concurrent POST requests on the session, at most one
\* executeStage for that session is in flight at any time.
C21_AtMostOneStageInFlight == Cardinality(InFlight) <= 1

\* C22: search unavailable skips collection. When no search provider is
\* configured, so that collectResources returns null, a session that is
\* polled again and again eventually leaves collecting and reaches outlining.
C22_SkipsCollection == ~searchAvailable => <>(session.stage = "outlining")

\* the stage changes of the polling flow, and the restart after an error
StageAdvances ==
    { <<"idle", "collecting">>, <<"collecting", "outlining">>,
      <<"outlining", "generating">>, <<"generating", "completed">> }
    \cup {<<s, "error">> : s \in Stages}
    \cup {<<"error", s>> : s \in {"collecting", "outlining", "generating"}}

\* C23: session stage order. Under any interleaving of requests and
\* background stage executions the stage changes only idle -> collecting ->
\* outlining -> generating -> completed, or to error, or from error to the
\* stage of the retry; outlining is entered only with resources stored,
\* generating only with a non-empty outline stored, completed only with a
\* presentation of the session's mode that has at least one slide.
C23_StageOrder ==
    [][session'.stage # session.stage =>
          /\ <<session.stage, session'.stage>> \in StageAdvances
          /\ session'.stage = "outlining" => session'.resources # Absent
          /\ session'.stage = "generating" => HasOutline(session')
          /\ session'.stage = "completed" => hasContent(session')]_vars

\* C29: error retry. A request that found the session in stage error and
\* reset it (error cleared, processing false, stage chosen from the stored
\* data) goes on to execute that stage again.
C29_RetryExecutesStage ==
    [][\A r \in Requests :
          (/\ slots[r].pc = "reget"
           /\ slots'[r].pc # "reget"
           /\ session.stage = RetryStage(slots[r].local)
           /\ session.error = Absent /\ ~session.processing)
          => /\ slots'[r].resume = "execute"
             /\ slots'[r].nextStage = session.stage]_vars

\* whether the result of a stage is stored in session s
ResultStored(s, stage) ==
    CASE stage = "collecting" -> s.resources # Absent
      [] stage = "outlining" -> s.outline # Absent
      [] stage = "generating" ->
           IF s.mode = "image" THEN s.imagePresentation # Absent
           ELSE s.dslPresentation # Absent
      [] stage = "completed" -> s.stage = "completed"
      [] OTHER -> FALSE

\* C30: processing is always released. The write that ends an after()
\* callback leaves processing false, with either the result of the stage
\* stored or stage error and an error message.
C30_ReleasedWithOutcome ==
    [][\A r \in Requests :
          (slots[r].pc = "update_write" /\ slots[r].resume = "free")
          => /\ ~session'.processing
             /\ \/ ResultStored(session', slots[r].nextStage)
                \/ session'.stage = "error" /\ session'.error # Absent]_vars
-----------------------------------------------------------------------------
(* Properties of the tool-calling loops *)

SlidesLoop == toolFn = "generateSlidesWithTools"

\* the arguments of tool call c as the loop reads them
ArgsOf(c) == ParsedArgs[ArgumentsOf(c)]

\* tool call c is an add_slide call whose arguments were parsed
IsAddSlide(c) ==
    c.type = "function" /\ c.function.name = "add_slide" /\ ArgsOf(c) \notin {ParseError, Null}

\* tool call c ends the for loop: finish_generation, or arguments that make
\* the callback throw
EndsCalls(c) ==
    /\ c.type = "function" /\ ArgsOf(c) # ParseError
    /\ \/ c.function.name = "finish_generation"
       \/ c.function.name = "add_slide" /\ ArgsOf(c) = Null

\* the positions of the tool calls of an assistant message that the loop
\* carries out
CarriedOut(calls) == {i \in 1..Len(calls) : \A j \in 1..(i - 1) : ~EndsCalls(calls[j])}

\* the add_slide calls of an assistant message that were carried out and that
\* the callback accepts or rejects
Judged(calls, accepted) ==
    SelectSeq([i \in 1..Len(calls) |-> i],
              LAMBDA i : /\ i \in CarriedOut(calls) /\ IsAddSlide(calls[i])
                         /\ validateSlide(ArgsOf(calls[i])) = accepted)

\* the tool messages pushed in a step
NewMessages ==
    SubSeq(conversationMessages', Len(conversationMessages) + 1, Len(conversationMessages'))

\* C24 (validation feedback loop): every slide generateSlidesWithTools holds
\* or returns was accepted by the validation callback; a round adds exactly
\* the slides of its add_slide calls that the callback accepts, in order,
\* and answers every add_slide call the callback rejects with the tool
\* message { success: false, error: 'Invalid content block types ...' } and
\* with no other.
C24_ValidationFeedback ==
    /\ [](SlidesLoop =>
            /\ \A i \in 1..Len(addedSlides) : validateSlide(addedSlides[i])
            /\ returned.how = "return" =>
                  \A i \in 1..Len(returned.value) : validateSlide(returned.value[i]))
    /\ [][(SlidesLoop /\ requests' = requests + 1) =>
            LET calls == message'.tool_calls
                ok == Judged(calls, TRUE)
                rejected == Judged(calls, FALSE)
            IN  /\ addedSlides' = addedSlides \o [n \in 1..Len(ok) |-> ArgsOf(calls[ok[n]])]
                /\ \A n \in 1..Len(rejected) :
                      \A k \in 1..Len(NewMessages) :
                         NewMessages[k].tool_call_id = calls[rejected[n]].id =>
                            NewMessages[k].content = ToolFailure(InvalidBlocksText)
                /\ \A n \in 1..Len(rejected) :
                      \E k \in 1..Len(NewMessages) :
                         NewMessages[k].tool_call_id = calls[rejected[n]].id]_vars

\* a rejected slide was answered with the error, an accepted one was added,
\* and the loop returned
C24_Witness ==
    /\ SlidesLoop /\ returned.how = "return" /\ Len(returned.value) = 1
    /\ \E k \in 1..Len(conversationMessages) :
          conversationMessages[k].content = ToolFailure(InvalidBlocksText)

\* what a loop has collected so far
Collected ==
    IF SlidesLoop THEN addedSlides ELSE [resources |-> resources, summary |-> summary]

\* C25 (bounded tool-calling loops): whatever the model replies,
\* generateSlidesWithTools makes at most 50 model requests and conductResearch
\* at most 20; every round is a further request, so a loop ends; it ends by
\* returning, never by an exception, and returns what it has collected so
\* far, also when the model never calls finish; once finish was called no
\* further request is made.
C25_BoundedLoops ==
    /\ [](requests <= MaxIterations(toolFn))
    /\ [](returned.how # "throw")
    /\ [](returned.how = "return" => returned.value = Collected)
    /\ [][returned'.how = "running" => requests' = requests + 1]_vars
    /\ [][finished => requests' = requests]_vars

-----------------------------------------------------------------------------
(* Properties of pagination: packing, merge-back and the frame of splitting *)

\* expandedBlocks of the input slide
Expanded == ExpandBlocks(ContentOf(slide))

\* whether pages are what the packing rule gives for their blocks: no page is
\* empty, every block after the first of a page fitted when it was appended,
\* and the first block of the next page did not fit on the page before it
IsGreedy(pages) ==
    /\ \A j \in 1..Len(pages) : Len(pages[j]) >= 1
    /\ \A j \in 1..Len(pages) : \A k \in 2..Len(pages[j]) :
          PageHeight(SubSeq(pages[j], 1, k)) <= MAX_CONTENT_HEIGHT
    /\ \A j \in 1..(Len(pages) - 1) :
          PageHeight(Append(pages[j], pages[j + 1][1])) > MAX_CONTENT_HEIGHT

\* pages with the last one cut in two after its first k blocks
CutLast(pages, k) ==
    LET last == pages[Len(pages)] IN
    IF k = 0 THEN pages
    ELSE SubSeq(pages, 1, Len(pages) - 1)
         \o <<SubSeq(last, 1, k), SubSeq(last, k + 1, Len(last))>>

\* C26 (greedy packing rule): the pages of a repacked slide hold its blocks
\* in order; the first block of each page is accepted whatever its height,
\* each later block is on the page of its predecessor exactly when
\* currentHeight + spacing + estimate(b) <= pageBudget, and otherwise starts
\* the next page (up to the merge of an undersized last page). Paragraphs of
\* heights 1.0, 1.0, 1.0, 1.0 and 3.0 inches give the two slides [b1, b2, b3]
\* and [b4, b5], titled with (1/2) and (2/2).
C26_GreedyPacking ==
    (pc = "done" /\ IsRepacked /\ Len(Expanded) > 1) =>
        /\ Flatten(OutContents) = Expanded
        /\ \E k \in 0..(Len(OutContents[Len(outSlides)]) - 1) :
              /\ IsGreedy(CutLast(OutContents, k))
              /\ k > 0 => PageHeight(CutLast(OutContents, k)[Len(outSlides) + 1])
                             < MIN_CONTENT_HEIGHT
        /\ slide = ExampleSlide =>
              /\ OutContents = <<SubSeq(Expanded, 1, 3), SubSeq(Expanded, 4, 5)>>
              /\ Get(outSlides[1], k_title) = Str(<<"T", " ", "(", "1", "/", "2", ")">>)
              /\ Get(outSlides[2], k_title) = Str(<<"T", " ", "(", "2", "/", "2", ")">>)

\* the example was paginated: five blocks of the heights of the example
C26_Witness ==
    /\ pc = "done" /\ slide = ExampleSlide /\ Len(outSlides) = 2
    /\ [i \in 1..Len(Expanded) |-> getBlockHeight(Expanded[i])] = <<100, 100, 100, 100, 300>>

\* the pages of the packing loop, before the merge-back step
PackedPages == PackLoop(Expanded, <<>>, <<>>, 0)

\* C27 (merge-back postcondition): whenever paginate returns more than one
\* slide, the estimated height of the last slide (block heights plus
\* spacing) is at least MIN_CONTENT_HEIGHT; a trailing page below the
\* threshold is appended, blocks in order, to the second-to-last page, every
\* other page is left as packed, and at most one page is merged per call.
C27_MergeBack ==
    pc = "done" =>
        /\ Len(outSlides) > 1 =>
              PageHeight(OutContents[Len(outSlides)]) >= MIN_CONTENT_HEIGHT
        /\ (IsRepacked /\ Len(Expanded) > 1) =>
              LET n == Len(PackedPages) IN
              /\ Len(outSlides) >= n - 1
              /\ MergeBackFires =>
                    OutContents = Append(SubSeq(PackedPages, 1, n - 2),
                                         PackedPages[n - 1] \o PackedPages[n])
              /\ ~MergeBackFires => OutContents = PackedPages

\* a trailing page below the threshold was merged onto a page that is not
\* the only one left
C27_Witness ==
    /\ pc = "done" /\ MergeBackFires
    /\ Len(outSlides) = Len(PackedPages) - 1 /\ Len(outSlides) > 1
    /\ PageHeight(PackedPages[Len(PackedPages)]) < MIN_CONTENT_HEIGHT

\* part i of block b of the input slide, as the output slides hold it
OutPart(b, i) == Flatten(OutContents)[PartsBefore(ContentOf(slide), b - 1) + i]

HasCaption(block) == TypeIs(block, s_code) \/ TypeIs(block, s_table)

\* what every part keeps of its block, and an unsplit block all of itself
FrameKept(b) ==
    LET block == ContentOf(slide)[b] IN
    /\ \A i \in 1..ExpectedParts(block) :
          /\ Get(OutPart(b, i), k_type) = Get(block, k_type)
          /\ TypeIs(block, s_code) => Get(OutPart(b, i), k_language) = Get(block, k_language)
          /\ TypeIs(block, s_table) => Get(OutPart(b, i), k_headers) = Get(block, k_headers)
    /\ ExpectedParts(block) = 1 => OutPart(b, 1) = block

\* C28 as stated: part i of total > 1 parts has the original caption with
\* " (i/total)" appended
C28_CaptionAppended ==
    (pc = "done" /\ IsRepacked) =>
        \A b \in 1..Len(ContentOf(slide)) :
            LET block == ContentOf(slide)[b] IN
            /\ FrameKept(b)
            /\ (HasCaption(block) /\ ExpectedParts(block) > 1) =>
                  \A i \in 1..ExpectedParts(block) :
                     Get(OutPart(b, i), k_caption)
                       = Str(OrEmpty(Get(block, k_caption))
                             \o ExpectedSuffix(i, ExpectedParts(block)))

\* C28 amended: every part of a split code block keeps the language, every
\* part of a split table the headers; part i of total > 1 parts has as
\* caption the original caption, taken as empty when absent, with
\* " (i/total)" appended and the whole trimmed of leading and trailing
\* whitespace, which is "(i/total)" for a block without caption; a block
\* that is not split is emitted unchanged.
C28_CaptionAppendedAndTrimmed ==
    (pc = "done" /\ IsRepacked) =>
        \A b \in 1..Len(ContentOf(slide)) :
            LET block == ContentOf(slide)[b] IN
            /\ FrameKept(b)
            /\ (HasCaption(block) /\ ExpectedParts(block) > 1) =>
                  \A i \in 1..ExpectedParts(block) :
                     Get(OutPart(b, i), k_caption)
                       = Str(Trim(OrEmpty(Get(block, k_caption))
                                  \o ExpectedSuffix(i, ExpectedParts(block))))

\* a split table whose caption starts with a space, a split code block
\* without caption
C28_Witness ==
    /\ pc = "done" /\ IsRepacked /\ Len(ContentOf(slide)) = 2
    /\ ExpectedParts(ContentOf(slide)[1]) = 3 /\ ExpectedParts(ContentOf(slide)[2]) = 2
    /\ Get(OutPart(1, 3), k_caption) = Str(<<"t", " ", "(", "3", "/", "3", ")">>)
    /\ Get(OutPart(2, 1), k_caption) = Str(<<"(", "1", "/", "2", ")">>)

====
